---- MODULE Spec2Model ----
(***************************************************************************)
(* The news agent: the run pipeline (fetch, deduplicate, validate,         *)
(* cross-reference, build digest, send approval request, save results),   *)
(* the stores it writes (db.digests, db.agent_runs, db.articles) and the   *)
(* webhook handlers that decide a digest (YES / NO / SKIP / refresh).      *)
(*                                                                         *)
(* A Python dict is a function whose domain is its set of keys, so that a  *)
(* missing key, dict.get(k, default) and {**a, **b} are modelled as they   *)
(* behave.  A JSON number-or-not value (credibility_score) is a tagged     *)
(* value [t |-> "int" | "str" | "null", v |-> Int].                        *)
(***************************************************************************)
EXTENDS Integers, Sequences, FiniteSets, Bags, TLC

\* ------------------------------------------------------------------ bounds
MaxRuns == 2        \* run records ever created
MaxTasks == 2       \* coroutines (run tasks, webhook handlers) alive at the same time
MaxClock == 1       \* the largest reading of datetime.now()
MaxBatch == 2       \* items in a fetched batch (pipeline specification)
MaxGather == 6      \* items in the batch of the gather specification
MaxDigestInput == 20 \* items in the validated list of the digest specification
MaxParagraphs == 3  \* paragraphs of a text given to the splitter
MaxItemInput == 3   \* items in the validated list of the item specification

\* ------------------------------------------------------- program constants
MAX_DIGEST_ITEMS == 15
MIN_SOURCES_FOR_VERIFIED == 2
XREF_BONUS == 15
XREF_DEFAULT_SCORE == 60
SCORE_CAP == 100
BOOST_PER_HIT == 10
BOOST_CAP == 30

\* ------------------------------------------------------------ Python dicts
Get(d, k, default) == IF k \in DOMAIN d THEN d[k] ELSE default

Has(d, k) == k \in DOMAIN d

\* {**a, **p}: keys of both, the right operand wins
Merge(a, p) == p @@ a

Put(d, k, v) == (k :> v) @@ d

EmptyDict == <<>>

Min(a, b) == IF a <= b THEN a ELSE b

JInt(n) == [t |-> "int", v |-> n]

JStr == [t |-> "str", v |-> 0]

JNull == [t |-> "null", v |-> 0]

RECURSIVE SelectIdx(_, _, _)
\* the indices i of s, in order, with Test[i]
SelectIdx(s, Test, i) ==
    IF i > Len(s) THEN <<>>
    ELSE (IF Test[i] THEN <<i>> ELSE <<>>) \o SelectIdx(s, Test, i + 1)

\* ------------------------------------------------------------- validators
_OFFICIAL == {"pib.gov.in", "rbi.org.in", "arxiv.org"}

_NEWS == {"economictimes.com", "techcrunch.com"}

_COMMUNITY == {"reddit.com", "x.com"}

_CC_UPI_KW == {"upi", "cashback", "reward", "discount"}

_CC_UPI_BOOST_KW == {"upi", "cashback", "reward", "lounge"}

\* the allow-list entries that occur as a substring of a source domain
\* ("d in domain"), for the domains the model feeds in
SubstringsOf(domain) ==
    CASE domain = "pib.gov.in" -> {"pib.gov.in"}
      [] domain = "economictimes.com" -> {"economictimes.com"}
      [] domain = "reddit.com" -> {"reddit.com"}
      [] domain = "netflix.com" -> {"x.com"}
      [] OTHER -> {}

_is_cc_upi_relevant(article) == Get(article, "kw", {}) \cap _CC_UPI_KW # {}

\* the summary of a content string: the empty content has the empty summary
_extract_summary(content) == IF content = "" THEN "" ELSE "summary"

\* the last tier scored like the community tier
_rule_based_unknown_as_community(article) ==
    LET domain == Get(article, "source_domain", "")
        hit(list) == SubstringsOf(domain) \cap list # {}
        res(st, sc, rs, act, w, xr) ==
            Merge(article,
                  [validation_status |-> st, credibility_score |-> JInt(sc),
                   reasoning |-> <<rs>>, is_actionable |-> act,
                   why_it_matters |-> w, needs_cross_reference |-> xr,
                   summary |-> _extract_summary(Get(article, "content", ""))])
    IN  IF hit(_OFFICIAL)
          THEN res("verified", 92, "Official source", TRUE, "None", FALSE)
        ELSE IF hit(_NEWS)
          THEN res("unverified", 72, "Established news outlet", TRUE, "None", TRUE)
        ELSE res("unverified", 45, "Community source", FALSE, "None", TRUE)

_rule_based(article) ==
    LET domain == Get(article, "source_domain", "")
        hit(list) == SubstringsOf(domain) \cap list # {}
        boosted == Get(article, "category", "") = "finance" /\ _is_cc_upi_relevant(article)
        why(dflt) == IF boosted THEN "Relevant to your UPI/credit card rewards" ELSE dflt
        res(st, sc, rs, act, w, xr) ==
            Merge(article,
                  [validation_status |-> st, credibility_score |-> JInt(sc),
                   reasoning |-> <<rs>>, is_actionable |-> act,
                   why_it_matters |-> w, needs_cross_reference |-> xr,
                   summary |-> _extract_summary(Get(article, "content", ""))])
    IN  IF hit(_OFFICIAL)
          THEN res("verified", 92, "Official source", TRUE,
                   why("Actionable update from official body."), FALSE)
        ELSE IF hit(_NEWS)
          THEN res("unverified", 72, "Established news outlet", TRUE,
                   why("Stay informed; verify before acting."), TRUE)
        ELSE IF hit(_COMMUNITY)
          THEN res("unverified", 45, "Community source", FALSE, "None", TRUE)
        ELSE res("unverified", 55, "Unknown/aggregator source", TRUE,
                 why("Verify from primary sources."), TRUE)

\* a non-200 answer returned without the fallback: the item stays unvalidated
_validate_one_no_fallback_on_non200(article, token, reply) ==
    IF ~token THEN _rule_based(article)
    ELSE IF reply.kind = "dict" /\ DOMAIN reply.parsed # {}
      THEN Merge(article, reply.parsed)
    ELSE IF reply.kind = "non200" THEN article
    ELSE _rule_based(article)

\* one article against the outcome of its remote call: reply.kind is
\* "exception" (error or timeout), "non200", "unparsable" (_extract_json gives
\* None), "nondict" (JSON that is no object) or "dict" (reply.parsed)
_validate_one(article, token, reply) ==
    IF ~token THEN _rule_based(article)
    ELSE IF reply.kind = "dict" /\ DOMAIN reply.parsed # {}
      THEN Merge(article, reply.parsed)
    ELSE _rule_based(article)

\* ------------------------------------------------------ cross reference
MAX_RESULTS == 15

\* netloc.replace("www.", "") for the hosts the search answers with
StripWww(netloc) ==
    CASE netloc = "www.livemint.com" -> "livemint.com"
      [] netloc = "www.economictimes.com" -> "economictimes.com"
      [] netloc = "www.randomblog.net" -> "randomblog.net"
      [] netloc = "www.reddit.com" -> "reddit.com"
      [] netloc = "www.pib.gov.in" -> "pib.gov.in"
      [] OTHER -> netloc

\* "original_domain not in link": the link does not spell the item's domain
NotOnDomain(netloc, original_domain) == StripWww(netloc) # original_domain

\* results on the item's own domain counted like any other
_count_confirming_sources_counts_own(lookup, original_domain) ==
    IF lookup.failed THEN 0
    ELSE LET first == SubSeq(lookup.entries, 1, Min(Len(lookup.entries), MAX_RESULTS))
         IN  Cardinality({StripWww(first[i]) : i \in DOMAIN first})

\* lookup.failed: the request or the parse raised; lookup.entries: the netloc
\* of each result link, in feed order
_count_confirming_sources(lookup, original_domain) ==
    IF lookup.failed THEN 0
    ELSE LET first == SubSeq(lookup.entries, 1, Min(Len(lookup.entries), MAX_RESULTS))
             kept == {i \in DOMAIN first : NotOnDomain(first[i], original_domain)}
         IN  Cardinality({StripWww(first[i]) : i \in kept})

\* the status test left out of the selection
InScope_ignores_status(a) == Get(a, "needs_cross_reference", FALSE)

InScope(a) ==
    /\ Get(a, "needs_cross_reference", FALSE)
    /\ Get(a, "validation_status", "<absent>") = "unverified"

\* check_one raises TypeError when the score it adds the bonus to is no number
CheckOneRaises(a, count) ==
    /\ count >= MIN_SOURCES_FOR_VERIFIED
    /\ Get(a, "credibility_score", JInt(XREF_DEFAULT_SCORE)).t # "int"

\* the bonus added without the cap
check_one_no_cap(a, count) ==
    IF count >= MIN_SOURCES_FOR_VERIFIED
      THEN Merge(a,
             [validation_status |-> "verified",
              cross_reference_count |-> count,
              credibility_score |->
                  JInt(Get(a, "credibility_score", JInt(XREF_DEFAULT_SCORE)).v + XREF_BONUS),
              reasoning |-> Get(a, "reasoning", <<>>) \o <<"other sources confirm">>])
      ELSE Put(a, "cross_reference_count", count)

\* an item below the threshold also loses its reasoning
check_one_clears_reasoning(a, count) ==
    IF count >= MIN_SOURCES_FOR_VERIFIED
      THEN Merge(a,
             [validation_status |-> "verified",
              cross_reference_count |-> count,
              credibility_score |->
                  JInt(Min(SCORE_CAP,
                           Get(a, "credibility_score", JInt(XREF_DEFAULT_SCORE)).v
                             + XREF_BONUS)),
              reasoning |-> Get(a, "reasoning", <<>>) \o <<"other sources confirm">>])
      ELSE Merge(a, [cross_reference_count |-> count, reasoning |-> <<>>])

check_one(a, count) ==
    IF count >= MIN_SOURCES_FOR_VERIFIED
      THEN Merge(a,
             [validation_status |-> "verified",
              cross_reference_count |-> count,
              credibility_score |->
                  JInt(Min(SCORE_CAP,
                           Get(a, "credibility_score", JInt(XREF_DEFAULT_SCORE)).v
                             + XREF_BONUS)),
              reasoning |-> Get(a, "reasoning", <<>>) \o <<"other sources confirm">>])
      ELSE Put(a, "cross_reference_count", count)

\* ------------------------------------------------------------------ digest
\* the boost without its ceiling
_cc_upi_boost_uncapped(article) ==
    IF Get(article, "category", "<absent>") # "finance" THEN 0
    ELSE Cardinality(Get(article, "kw", {}) \cap _CC_UPI_BOOST_KW) * BOOST_PER_HIT

_cc_upi_boost(article) ==
    IF Get(article, "category", "<absent>") # "finance" THEN 0
    ELSE Min(Cardinality(Get(article, "kw", {}) \cap _CC_UPI_BOOST_KW) * BOOST_PER_HIT,
             BOOST_CAP)


Priority(x) == Get(x, "credibility_score", JInt(0)).v + _cc_upi_boost(x)

RECURSIVE InsertDesc(_, _)
\* x placed after every element whose key is >= its own: a stable descending sort
InsertDesc(s, x) ==
    IF s = <<>> THEN <<x>>
    ELSE IF Priority(Head(s)) >= Priority(x) THEN <<Head(s)>> \o InsertDesc(Tail(s), x)
    ELSE <<x>> \o s

RECURSIVE SortDesc(_)
\* list.sort(key=..., reverse=True) on the composite priority
SortDesc(s) ==
    IF s = <<>> THEN <<>>
    ELSE InsertDesc(SortDesc(SubSeq(s, 1, Len(s) - 1)), s[Len(s)])

\* the filter without its test of the status
IsActionable_any_status(a) == Get(a, "is_actionable", FALSE)

IsActionable(a) ==
    /\ Get(a, "validation_status", "<absent>") # "conflicting"
    /\ Get(a, "is_actionable", FALSE)

Filtered(validated) ==
    LET keep == SelectIdx(validated, [i \in DOMAIN validated |-> IsActionable(validated[i])], 1)
    IN  [j \in DOMAIN keep |-> validated[keep[j]]]

\* the sort key adds an int to the score: TypeError when the score is no number
SortRaises(validated) ==
    \E i \in DOMAIN validated :
        /\ IsActionable(validated[i])
        /\ Get(validated[i], "credibility_score", JInt(0)).t # "int"

\* the slice left out
Capped_whole_list(s) == s

Capped(s) == SubSeq(s, 1, Min(Len(s), MAX_DIGEST_ITEMS))

Block(kind, cat, idx, n, verified, unverified, url) ==
    [kind |-> kind, cat |-> cat, idx |-> idx, n |-> n,
     verified |-> verified, unverified |-> unverified, url |-> url]

CATEGORY_ORDER == <<"finance", "tech", "govt">>

OfCategory(arts, cat) ==
    LET keep == SelectIdx(arts, [i \in DOMAIN arts |-> Get(arts[i], "category", "tech") = cat], 1)
    IN  [j \in DOMAIN keep |-> arts[keep[j]]]

RECURSIVE Sections(_, _, _)
\* the category blocks from CATEGORY_ORDER[c] on, display indices from idx
Sections(arts, c, idx) ==
    IF c > Len(CATEGORY_ORDER) THEN <<>>
    ELSE LET items == OfCategory(arts, CATEGORY_ORDER[c])
         IN  IF items = <<>> THEN Sections(arts, c + 1, idx)
             ELSE <<Block("section", CATEGORY_ORDER[c], 0, Len(items), 0, 0, "")>>
                  \o [i \in DOMAIN items |->
                        Block("entry", CATEGORY_ORDER[c], idx + i - 1, 0, 0, 0,
                              Get(items[i], "url", ""))]
                  \o Sections(arts, c + 1, idx + Len(items))

\* the rendered body as its sequence of blocks: header, category sections
\* with their entries, footer
_build_digest_text(arts, stats) ==
    LET verified_count == Get(stats, "verified_after_xref", Get(stats, "verified", 0))
        unverified_count ==
            Cardinality({i \in DOMAIN arts :
                            Get(arts[i], "validation_status", "<absent>") = "unverified"})
    IN  <<Block("header", "", 0, Len(arts), verified_count, unverified_count, "")>>
        \o Sections(arts, 1, 1)
        \o <<Block("footer", "", 0, 0, 0, 0, "")>>

\* ---------------------------------------------------------------- splitter
\* A str is modelled as the sequence of its runs [ch, n]: n > 0 characters of
\* one kind, "x" (not whitespace), " " (whitespace within a line) or "\n";
\* neighbouring runs differ in kind.
_MAX_TG_CHARS == 3800

Run(ch, n) == <<[ch |-> ch, n |-> n]>>

PARAGRAPH_SEP == Run("\n", 2)

RECURSIVE StrLen(_)
\* len(s)
StrLen(s) == IF s = <<>> THEN 0 ELSE Head(s).n + StrLen(Tail(s))

\* a + b
StrCat(a, b) ==
    IF a = <<>> THEN b
    ELSE IF b = <<>> THEN a
    ELSE IF a[Len(a)].ch = Head(b).ch
      THEN SubSeq(a, 1, Len(a) - 1) \o Run(Head(b).ch, a[Len(a)].n + Head(b).n) \o Tail(b)
    ELSE a \o b

IsSpace(run) == run.ch \in {" ", "\n"}

RECURSIVE StrLStrip(_)
StrLStrip(s) == IF s # <<>> /\ IsSpace(Head(s)) THEN StrLStrip(Tail(s)) ELSE s

RECURSIVE StrRStrip(_)
StrRStrip(s) ==
    IF s # <<>> /\ IsSpace(s[Len(s)]) THEN StrRStrip(SubSeq(s, 1, Len(s) - 1)) ELSE s

\* s.strip()
StrStrip(s) == StrRStrip(StrLStrip(s))

RECURSIVE StrTake(_, _)
\* s[:k]
StrTake(s, k) ==
    IF k <= 0 \/ s = <<>> THEN <<>>
    ELSE IF Head(s).n >= k THEN Run(Head(s).ch, k)
    ELSE <<Head(s)>> \o StrTake(Tail(s), k - Head(s).n)

RECURSIVE StrDrop(_, _)
\* s[k:]
StrDrop(s, k) ==
    IF k <= 0 \/ s = <<>> THEN s
    ELSE IF Head(s).n > k THEN Run(Head(s).ch, Head(s).n - k) \o Tail(s)
    ELSE StrDrop(Tail(s), k - Head(s).n)

\* s[i:j]
StrSlice(s, i, j) == StrTake(StrDrop(s, i), j - i)

RECURSIVE StrSplit(_, _)
\* (current + s).split("\n\n"), current holding no separator: a run of n line
\* breaks holds n \div 2 separators, an odd one leaves a line break to the
\* paragraph that follows
StrSplit(s, current) ==
    IF s = <<>> THEN <<current>>
    ELSE IF Head(s).ch # "\n" \/ Head(s).n = 1
      THEN StrSplit(Tail(s), StrCat(current, <<Head(s)>>))
    ELSE <<current>>
         \o [i \in 1..((Head(s).n \div 2) - 1) |-> <<>>]
         \o StrSplit(Tail(s), IF Head(s).n % 2 = 1 THEN Run("\n", 1) ELSE <<>>)

\* the whole paragraph sent as one chunk
HardSplit_whole(para) == <<para>>

\* para[i : i + _MAX_TG_CHARS] for i in range(0, len(para), _MAX_TG_CHARS)
HardSplit(para) ==
    [k \in 1..((StrLen(para) + _MAX_TG_CHARS - 1) \div _MAX_TG_CHARS) |->
        StrSlice(para, (k - 1) * _MAX_TG_CHARS, k * _MAX_TG_CHARS)]

RECURSIVE SplitLoop(_, _, _)
\* the loop over the paragraphs and the append after it
SplitLoop(paras, chunks, current) ==
    IF paras = <<>>
      THEN IF current # <<>> THEN Append(chunks, current) ELSE chunks
    ELSE LET para == Head(paras)
             block == IF current # <<>>
                        THEN StrStrip(StrCat(StrCat(current, PARAGRAPH_SEP), para))
                        ELSE para
             flushed == IF current # <<>> THEN Append(chunks, current) ELSE chunks
         IN  IF StrLen(block) <= _MAX_TG_CHARS THEN SplitLoop(Tail(paras), chunks, block)
             ELSE IF StrLen(para) > _MAX_TG_CHARS
               THEN SplitLoop(Tail(paras), flushed \o HardSplit(para), <<>>)
             ELSE SplitLoop(Tail(paras), flushed, para)

_split_telegram_message(text) ==
    IF StrLen(text) <= _MAX_TG_CHARS THEN <<text>>
    ELSE SplitLoop(StrSplit(text, <<>>), <<>>, <<>>)

RECURSIVE JoinParagraphs(_)
\* "\n\n".join(paragraphs)
JoinParagraphs(paragraphs) ==
    IF paragraphs = <<>> THEN <<>>
    ELSE IF Len(paragraphs) = 1 THEN paragraphs[1]
    ELSE StrCat(StrCat(paragraphs[1], PARAGRAPH_SEP), JoinParagraphs(Tail(paragraphs)))

\* ------------------------------------------------------------------- state
VARIABLES
    TELEGRAM_CHAT_ID,   \* the configured chat id, "" when not configured
    HF_TOKEN,           \* TRUE when the classification service is configured
    AGENT_SECRET_KEY,   \* the secret of the trigger endpoint, "" when not configured
    feed,               \* what the collaborators can answer in this behaviour
    now,                \* the last reading of datetime.now()
    digests,            \* db.digests, in insertion order (the index is _id)
    agent_runs,         \* db.agent_runs, the index is run_id
    articles,           \* db.articles: url -> fetched_at
    user_feedback,      \* db.articles: url -> user_feedback, where the field is set
    pc,                 \* pc[run_id]: the stage the run's task is about to execute
    state,              \* state[run_id]: the AgentState of the run
    local,              \* local[run_id]: locals of the stage in progress
    handlers,           \* the bag of webhook handlers suspended at an await
    outbox,             \* the message the step just taken handed to send_message
    splitter            \* a call of _split_telegram_message: its text, its chunks

vars == <<TELEGRAM_CHAT_ID, HF_TOKEN, AGENT_SECRET_KEY, feed, now, digests, agent_runs, articles, user_feedback,
          pc, state, local, handlers, outbox, splitter>>

\* what no step of a run or of a webhook handler writes
config == <<TELEGRAM_CHAT_ID, HF_TOKEN, AGENT_SECRET_KEY, feed, splitter>>

db == <<digests, agent_runs, articles, user_feedback>>

Runs == DOMAIN agent_runs

initial_state(run_id) ==
    [raw_articles |-> <<>>, deduplicated |-> <<>>, validated |-> <<>>,
     actionable |-> <<>>, digest |-> <<>>, approval_status |-> "pending",
     run_id |-> run_id, stats |-> EmptyDict, errors |-> <<>>]

\* now: the clock reading of save_results; error: the exception a node raised;
\* save_fault: the store raised inside save_results
\* store_ok, replies, lookups: what the collaborators answered the stage that
\* ran last (the lookback query, the classification calls, the news searches)
\* calls, results, out_of_order: the tasks of the asyncio.gather in progress
\* (gather specification): the position of each task, its result so far, and
\* whether a task has returned before a task created earlier
NoLocal == [now |-> 0, error |-> "", save_fault |-> FALSE,
            store_ok |-> TRUE, replies |-> <<>>, lookups |-> <<>>,
            calls |-> <<>>, results |-> <<>>, out_of_order |-> FALSE]

StageIO(r, ok, replies, lookups) ==
    local' = [local EXCEPT ![r].store_ok = ok, ![r].replies = replies, ![r].lookups = lookups]

\* datetime.now(): never goes back, two readings can be equal
ClockReadings == {t \in {now, now + 1} : t <= MaxClock}


\* ------------------------------------------------------------------ inputs
Item(url, domain, category, kw) ==
    [url |-> url, title |-> url, source_domain |-> domain, category |-> category,
     kw |-> kw, published_at |-> 0]

ItemGovt == Item("https://pib.gov.in/x", "pib.gov.in", "govt", {})

ItemNews == Item("https://economictimes.com/y", "economictimes.com", "finance", {"upi"})

Reply(kind, parsed) == [kind |-> kind, parsed |-> parsed]

ReplyException == Reply("exception", EmptyDict)

ReplyConflicting ==
    Reply("dict", [validation_status |-> "conflicting", credibility_score |-> JInt(30),
                   reasoning |-> <<"contradicts a known fact">>, is_actionable |-> TRUE,
                   needs_cross_reference |-> TRUE])

\* a reply whose score is a JSON string
ReplyStringScore ==
    Reply("dict", [validation_status |-> "unverified", credibility_score |-> JStr,
                   reasoning |-> <<"established outlet">>, is_actionable |-> TRUE,
                   needs_cross_reference |-> TRUE])

ItemCommunity == Item("https://reddit.com/z", "reddit.com", "tech", {})

ItemBlog == Item("https://randomblog.net/w", "randomblog.net", "finance", {"cashback", "lounge"})

ReplyVerified ==
    Reply("dict", [validation_status |-> "verified", credibility_score |-> JInt(95),
                   reasoning |-> <<"official source">>, is_actionable |-> TRUE,
                   needs_cross_reference |-> FALSE])

\* replies the service is free to give: no schema is enforced on them
ReplyHighScore ==
    Reply("dict", [validation_status |-> "unverified", credibility_score |-> JInt(150),
                   reasoning |-> <<"very sure">>, is_actionable |-> TRUE,
                   needs_cross_reference |-> TRUE])

ReplyNegativeScore ==
    Reply("dict", [validation_status |-> "unverified", credibility_score |-> JInt(-5),
                   reasoning |-> <<"rumour">>, is_actionable |-> FALSE,
                   needs_cross_reference |-> TRUE])

ReplyNoStatus ==
    Reply("dict", [reasoning |-> <<"no verdict">>, is_actionable |-> TRUE])

ReplyOtherStatus ==
    Reply("dict", [validation_status |-> "partially verified", credibility_score |-> JInt(60),
                   reasoning |-> <<"mixed">>, is_actionable |-> TRUE,
                   needs_cross_reference |-> TRUE])

\* a reply that also carries keys of the item itself
ReplyRewritesItem ==
    Reply("dict", [validation_status |-> "verified", credibility_score |-> JInt(90),
                   reasoning |-> <<"confirmed">>, is_actionable |-> TRUE,
                   needs_cross_reference |-> FALSE,
                   url |-> "https://elsewhere.example/a", title |-> "Rewritten",
                   category |-> "health"])

PipelineItems == {ItemGovt, ItemNews, ItemCommunity, ItemBlog}

RECURSIVE SeqsUpTo(_, _)
\* the sequences over S of length at most n
SeqsUpTo(S, n) ==
    IF n = 0 THEN {<<>>}
    ELSE LET shorter == SeqsUpTo(S, n - 1)
         IN  shorter \cup {Append(q, x) : q \in shorter, x \in S}

PipelineFeed ==
    [batches |-> SeqsUpTo(PipelineItems, MaxBatch),
     replies |-> {ReplyException, Reply("non200", EmptyDict), Reply("unparsable", EmptyDict),
                  Reply("nondict", EmptyDict), Reply("dict", EmptyDict),
                  ReplyVerified, ReplyConflicting, ReplyStringScore, ReplyHighScore,
                  ReplyNegativeScore, ReplyNoStatus, ReplyOtherStatus, ReplyRewritesItem},
     lookups |-> {"failed", "own_only", "one_repeated", "own_and_one", "two", "late"}]

\* the collaborators of the workflow specification: few items, few answers
WorkflowFeed ==
    [batches |-> {<<>>, <<ItemNews>>},
     replies |-> {ReplyException, ReplyConflicting, ReplyStringScore},
     lookups |-> {"two"},
     texts |-> {"YES", "yes ", "no", "Skip", "/refresh", "Refresh", "hello"}]

\* the answers of the news search to the query of an item of domain own
Lookup(kind, own) ==
    CASE kind = "failed" -> [failed |-> TRUE, entries |-> <<>>]
      [] kind = "own_only" -> [failed |-> FALSE, entries |-> <<own, "www." \o own>>]
      [] kind = "one_repeated" ->
           [failed |-> FALSE, entries |-> <<"livemint.com", "www.livemint.com", "livemint.com">>]
      [] kind = "own_and_one" -> [failed |-> FALSE, entries |-> <<own, "livemint.com">>]
      [] kind = "two" -> [failed |-> FALSE, entries |-> <<"livemint.com", "thehindu.com">>]
      [] kind = "late" ->
           [failed |-> FALSE,
            entries |-> [i \in 1..MAX_RESULTS |-> "livemint.com"] \o <<"thehindu.com">>]

\* no call of the splitter made
NoSplit == [text |-> <<>>, chunks |-> <<>>, done |-> FALSE]

\* ok: what send_message returned, True when the channel took the message.
\* No caller reads it; False is drawn only for the body of a digest.
Msg(kind, ref) == [kind |-> kind, ref |-> ref, ok |-> TRUE]

\* the message handed to send_message and not delivered: no bot token, a
\* status other than 200, or an exception of the client
Undelivered(kind, ref) == [Msg(kind, ref) EXCEPT !.ok = FALSE]

NoMsg == Msg("", 0)

Init ==
    /\ TELEGRAM_CHAT_ID \in {"", "42"}
    /\ HF_TOKEN = TRUE
    /\ AGENT_SECRET_KEY = "s3cret"
    /\ feed = WorkflowFeed
    /\ now = 0
    /\ digests = <<>>
    /\ agent_runs = <<>>
    /\ articles = EmptyDict
    /\ user_feedback = EmptyDict
    /\ pc = <<>>
    /\ state = <<>>
    /\ local = <<>>
    /\ handlers = EmptyBag
    /\ outbox = NoMsg
    /\ splitter = NoSplit

\* run records already promised by a refresh handler past its check
Promised ==
    BagCardinality([h \in {x \in BagToSet(handlers) :
                               x.kind = "refresh"
                               /\ x.pc \in {"send_refreshing", "insert_run"}}
                      |-> handlers[h]])

\* the coroutines the event loop holds: unfinished run tasks and webhook handlers
Tasks == Cardinality({r \in DOMAIN pc : pc[r] # "END"}) + BagCardinality(handlers)

\* --------------------------------------------------------------- run start
\* insert_one of the run record, then the task is handed to the event loop
StartRun(triggered_by) ==
    /\ agent_runs' = Append(agent_runs, [status |-> "running", triggered_by |-> triggered_by,
                                         error |-> "", stats |-> EmptyDict,
                                         errors |-> <<>>])
    /\ pc' = Append(pc, "fetch_sources")
    /\ state' = Append(state, initial_state(Len(agent_runs) + 1))
    /\ local' = Append(local, NoLocal)

\* the Authorization header of a trigger request: none, a wrong token, the
\* token of the deployment
Authorizations == {"<absent>", "Bearer wrong", "Bearer s3cret"}

\* AGENT_SECRET_KEY and authorization != f"Bearer {AGENT_SECRET_KEY}"
Unauthorized(authorization) ==
    AGENT_SECRET_KEY # "" /\ authorization # "Bearer " \o AGENT_SECRET_KEY

\* the status of the answer to a trigger request
trigger_status(authorization) == IF Unauthorized(authorization) THEN 401 ELSE 200

\* POST /api/agent/trigger with the header authorization
trigger_agent_request(authorization) ==
    IF Unauthorized(authorization)
      THEN /\ outbox' = NoMsg
           /\ UNCHANGED <<config, now, db, pc, state, local, handlers>>
      ELSE /\ Len(agent_runs) + Promised < MaxRuns
           /\ Tasks < MaxTasks
           /\ StartRun("http")
           /\ outbox' = NoMsg
           /\ UNCHANGED <<config, now, digests, articles, user_feedback, handlers>>

\* POST /api/agent/trigger
trigger_agent == \E authorization \in Authorizations : trigger_agent_request(authorization)

\* ---------------------------------------------------------------- pipeline
\* a node's partial update merged into the run's state
Update(r, upd) == state' = [state EXCEPT ![r] = upd @@ @]

Goto(r, stage) == pc' = [pc EXCEPT ![r] = stage]

\* the node raised: ainvoke raises and _run_agent_task catches it
Raise(r, msg) ==
    /\ pc' = [pc EXCEPT ![r] = "mark_failed"]
    /\ local' = [local EXCEPT ![r] = [NoLocal EXCEPT !.error = msg]]

fetch_all_sources(r) ==
    /\ pc[r] = "fetch_sources"
    /\ \E batch \in feed.batches :
          Update(r, [raw_articles |-> batch,
                     stats |-> [total_fetched |-> Len(batch), translated |-> 0],
                     errors |-> state[r].errors])
    /\ Goto(r, "deduplicate")
    /\ outbox' = NoMsg
    /\ UNCHANGED <<config, now, db, local, handlers>>

DEDUP_WINDOW == 7

DEDUP_CAP == 50

\* the window left out of the query: a url seen at any time counts
seen_urls_any_age(batch, cutoff) ==
    {u \in DOMAIN articles : \E i \in DOMAIN batch : Get(batch[i], "url", "") = u}

\* the urls of the batch the store has seen since the cutoff
seen_urls(batch, cutoff) ==
    {u \in DOMAIN articles :
        /\ \E i \in DOMAIN batch : Get(batch[i], "url", "") = u
        /\ articles[u] >= cutoff}

\* the filter left out: every item with a url is let through
new_articles_ignores_seen(batch, seen) ==
    SelectSeq(batch, LAMBDA a : Get(a, "url", "") # "")

new_articles(batch, seen) ==
    LET keep == SelectIdx(batch,
                          [i \in DOMAIN batch |->
                              /\ Get(batch[i], "url", "") # ""
                              /\ Get(batch[i], "url", "") \notin seen], 1)
    IN  [j \in DOMAIN keep |-> batch[keep[j]]]

\* the stage also records what it lets through as seen
deduplicate_articles_marks_seen(r) ==
    /\ pc[r] = "deduplicate"
    /\ LET batch == state[r].raw_articles
       IN  \E store_ok \in BOOLEAN :
             LET fresh == IF store_ok
                            THEN new_articles(batch, seen_urls(batch, now - DEDUP_WINDOW))
                            ELSE batch
                 out == SubSeq(fresh, 1, Min(Len(fresh), DEDUP_CAP))
             IN  /\ Update(r, [deduplicated |-> out,
                               stats |-> Put(state[r].stats, "after_dedup", Len(out))])
                 /\ StageIO(r, store_ok, <<>>, <<>>)
                 /\ articles' = [u \in DOMAIN articles \cup {out[i].url : i \in DOMAIN out} |->
                                   IF \E i \in DOMAIN out : out[i].url = u THEN now
                                   ELSE articles[u]]
    /\ Goto(r, "validate_articles")
    /\ outbox' = NoMsg
    /\ UNCHANGED <<config, now, digests, agent_runs, user_feedback, handlers>>

\* a failed query lets nothing through
deduplicate_articles_fail_closed(r) ==
    /\ pc[r] = "deduplicate"
    /\ LET batch == state[r].raw_articles
       IN  \E store_ok \in BOOLEAN :
             LET fresh == IF store_ok
                            THEN new_articles(batch, seen_urls(batch, now - DEDUP_WINDOW))
                            ELSE <<>>
                 out == SubSeq(fresh, 1, Min(Len(fresh), DEDUP_CAP))
             IN  /\ Update(r, [deduplicated |-> out,
                               stats |-> Put(state[r].stats, "after_dedup", Len(out))])
                 /\ StageIO(r, store_ok, <<>>, <<>>)
    /\ Goto(r, "validate_articles")
    /\ outbox' = NoMsg
    /\ UNCHANGED <<config, now, db, handlers>>

deduplicate_articles(r) ==
    /\ pc[r] = "deduplicate"
    /\ LET batch == state[r].raw_articles
       IN  IF batch = <<>>
             THEN /\ Update(r, [deduplicated |-> <<>>,
                                stats |-> Put(state[r].stats, "after_dedup", 0)])
                  /\ StageIO(r, TRUE, <<>>, <<>>)
             ELSE \E store_ok \in BOOLEAN :
                    LET fresh == IF store_ok
                                   THEN new_articles(batch, seen_urls(batch, now - DEDUP_WINDOW))
                                   ELSE batch
                        out == SubSeq(fresh, 1, Min(Len(fresh), DEDUP_CAP))
                    IN  /\ Update(r, [deduplicated |-> out,
                                      stats |-> Put(state[r].stats, "after_dedup", Len(out))])
                        /\ StageIO(r, store_ok, <<>>, <<>>)
    /\ Goto(r, "validate_articles")
    /\ outbox' = NoMsg
    /\ UNCHANGED <<config, now, db, handlers>>

CountStatus(items, st) ==
    Cardinality({i \in DOMAIN items : Get(items[i], "validation_status", "<absent>") = st})

validate_articles(r) ==
    /\ pc[r] = "validate_articles"
    /\ LET batch == state[r].deduplicated
       IN  IF batch = <<>>
             THEN /\ Update(r, [validated |-> <<>>])
                  /\ StageIO(r, TRUE, <<>>, <<>>)
             ELSE \E reply \in [DOMAIN batch -> feed.replies] :
                    LET validated == [i \in DOMAIN batch |->
                                         _validate_one(batch[i], HF_TOKEN, reply[i])]
                    IN  /\ Update(r, [validated |-> validated,
                                      stats |->
                                        [verified |-> CountStatus(validated, "verified"),
                                         unverified |-> CountStatus(validated, "unverified"),
                                         conflicting |-> CountStatus(validated, "conflicting")]
                                        @@ state[r].stats])
                        \* without a token no call is made
                        /\ StageIO(r, TRUE, IF HF_TOKEN THEN reply ELSE <<>>, <<>>)
    /\ Goto(r, "cross_reference")
    /\ outbox' = NoMsg
    /\ UNCHANGED <<config, now, db, handlers>>

cross_reference_check(r) ==
    /\ pc[r] = "cross_reference"
    /\ LET arts == state[r].validated
       IN  IF \A i \in DOMAIN arts : ~InScope(arts[i])
             THEN /\ Update(r, [validated |-> arts])
                  /\ Goto(r, "build_digest")
                  /\ StageIO(r, TRUE, <<>>, <<>>)
             ELSE \E kind \in [DOMAIN arts -> feed.lookups] :
                    LET \* only the items in scope are looked up
                        lookups == [i \in DOMAIN arts |-> IF InScope(arts[i]) THEN kind[i] ELSE ""]
                        count == [i \in DOMAIN arts |->
                                    IF InScope(arts[i])
                                      THEN _count_confirming_sources(
                                               Lookup(kind[i], Get(arts[i], "source_domain", "")),
                                               Get(arts[i], "source_domain", ""))
                                      ELSE 0]
                    IN
                    IF \E i \in DOMAIN arts : InScope(arts[i]) /\ CheckOneRaises(arts[i], count[i])
                      THEN /\ Raise(r, "TypeError")
                           /\ state' = state
                      ELSE LET out == [i \in DOMAIN arts |->
                                          IF InScope(arts[i]) THEN check_one(arts[i], count[i])
                                          ELSE arts[i]]
                           IN  /\ Update(r, [validated |-> out,
                                             stats |-> Put(state[r].stats, "verified_after_xref",
                                                           CountStatus(out, "verified"))])
                               /\ Goto(r, "build_digest")
                               /\ StageIO(r, TRUE, <<>>, lookups)
    /\ outbox' = NoMsg
    /\ UNCHANGED <<config, now, db, handlers>>

filter_and_build_digest(r) ==
    /\ pc[r] = "build_digest"
    /\ IF SortRaises(state[r].validated)
         THEN /\ Raise(r, "TypeError")
              /\ state' = state
         ELSE LET actionable == Capped(SortDesc(Filtered(state[r].validated)))
                  stats == Put(state[r].stats, "actionable", Len(actionable))
              IN  /\ Update(r, [actionable |-> actionable,
                                digest |-> IF actionable = <<>> THEN <<>>
                                           ELSE _build_digest_text(actionable, stats),
                                stats |-> stats])
                  /\ Goto(r, "send_approval")
                  /\ StageIO(r, TRUE, <<>>, <<>>)
    /\ outbox' = NoMsg
    /\ UNCHANGED <<config, now, db, handlers>>

send_message(kind, ref) == outbox' = Msg(kind, ref)

\* the empty-list check left out: a preview is sent and approval is pending
send_approval_request_no_empty_check(r) ==
    /\ pc[r] = "send_approval"
    /\ IF TELEGRAM_CHAT_ID = ""
         THEN /\ Update(r, [approval_status |-> "skipped"])
              /\ outbox' = NoMsg
         ELSE /\ send_message("preview", r)
              /\ Update(r, [approval_status |-> "pending"])
    /\ Goto(r, "save_results")
    /\ UNCHANGED <<config, now, db, local, handlers>>

\* the edge to save_results left out: the approval request is the last stage
send_approval_request_last(r) ==
    /\ pc[r] = "send_approval"
    /\ IF TELEGRAM_CHAT_ID = ""
         THEN /\ Update(r, [approval_status |-> "skipped"])
              /\ outbox' = NoMsg
         ELSE IF state[r].actionable = <<>>
           THEN /\ send_message("no_updates", r)
                /\ Update(r, [approval_status |-> "skipped"])
           ELSE /\ send_message("preview", r)
                /\ Update(r, [approval_status |-> "pending"])
    /\ Goto(r, "END")
    /\ UNCHANGED <<config, now, db, local, handlers>>

send_approval_request(r) ==
    /\ pc[r] = "send_approval"
    /\ IF TELEGRAM_CHAT_ID = ""
         THEN /\ Update(r, [approval_status |-> "skipped"])
              /\ outbox' = NoMsg
         ELSE IF state[r].actionable = <<>>
           THEN /\ send_message("no_updates", r)
                /\ Update(r, [approval_status |-> "skipped"])
           ELSE /\ send_message("preview", r)
                /\ Update(r, [approval_status |-> "pending"])
    /\ Goto(r, "save_results")
    /\ UNCHANGED <<config, now, db, local, handlers>>


\* ------------------------------------------------------------ save_results
\* The body of save_results is one try block whose except clause logs and
\* returns: a store fault at any of its awaits ends the node without raising.
\* Its three groups of awaits are three steps.

\* {"url": url} upserted with fetched_at = t for the first k validated items
Upserted(validated, k, t) ==
    [u \in DOMAIN articles \cup {Get(validated[i], "url", "") : i \in 1..k} |->
        IF \E i \in 1..k : Get(validated[i], "url", "") = u THEN t ELSE articles[u]]

HasDigest(st) == st.digest # <<>> /\ st.actionable # <<>>

\* the article upserts; k < Len(validated): the store raised at item k + 1
save_results(r) ==
    /\ pc[r] = "save_results"
    /\ \E t \in ClockReadings, k \in 0..Len(state[r].validated) :
          /\ now' = t
          /\ local' = [local EXCEPT ![r].now = t,
                                    ![r].save_fault = k < Len(state[r].validated)]
          /\ articles' = Upserted(state[r].validated, k, t)
          /\ Goto(r, IF k < Len(state[r].validated) THEN "END"
                     ELSE IF HasDigest(state[r]) THEN "save_digest"
                     ELSE "save_run")
    /\ outbox' = NoMsg
    /\ UNCHANGED <<config, digests, agent_runs, user_feedback, state, handlers>>

\* the run id not passed on: every digest stored under the same default id
NewDigest_default_run_id(r) ==
    [run_id |-> 0, digest_text |-> state[r].digest, articles |-> state[r].actionable,
     stats |-> state[r].stats, status |-> "pending", created_at |-> local[r].now]

NewDigest(r) ==
    [run_id |-> r, digest_text |-> state[r].digest, articles |-> state[r].actionable,
     stats |-> state[r].stats, status |-> "pending", created_at |-> local[r].now]

\* db.digests.insert_one
save_digest(r) ==
    /\ pc[r] = "save_digest"
    /\ \E store_ok \in BOOLEAN :
          /\ IF store_ok
               THEN /\ digests' = Append(digests, NewDigest(r))
                    /\ Goto(r, "save_run")
               ELSE /\ digests' = digests
                    /\ Goto(r, "END")
          /\ local' = [local EXCEPT ![r].save_fault = ~store_ok]
    /\ outbox' = NoMsg
    /\ UNCHANGED <<config, now, agent_runs, articles, user_feedback, state, handlers>>

\* db.agent_runs.update_one: the run record completed
save_run(r) ==
    /\ pc[r] = "save_run"
    /\ \E store_ok \in BOOLEAN :
          /\ agent_runs' = IF store_ok
                             THEN [agent_runs EXCEPT ![r].status = "completed",
                                                     ![r].stats = state[r].stats,
                                                     ![r].errors = state[r].errors]
                             ELSE agent_runs
          /\ local' = [local EXCEPT ![r].save_fault = ~store_ok]
    /\ Goto(r, "END")
    /\ outbox' = NoMsg
    /\ UNCHANGED <<config, now, digests, articles, user_feedback, state, handlers>>

\* ---------------------------------------- _run_agent_task, the except path
\* update_one marks the run failed; a store fault here ends the task
mark_failed(r) ==
    /\ pc[r] = "mark_failed"
    /\ \E store_ok \in BOOLEAN :
          IF store_ok
            THEN /\ agent_runs' = [agent_runs EXCEPT ![r].status = "failed",
                                                     ![r].error = local[r].error]
                 /\ Goto(r, "notify_failed")
            ELSE /\ agent_runs' = agent_runs
                 /\ Goto(r, "END")
    /\ outbox' = NoMsg
    /\ UNCHANGED <<config, now, digests, articles, user_feedback, state, local, handlers>>

notify_failed(r) ==
    /\ pc[r] = "notify_failed"
    /\ IF agent_runs[r].triggered_by = "telegram_refresh" /\ TELEGRAM_CHAT_ID # ""
         THEN send_message("refresh_failed", r)
         ELSE outbox' = NoMsg
    /\ Goto(r, "END")
    /\ UNCHANGED <<config, now, db, state, local, handlers>>

\* ------------------------------------------------------------ the webhook
Texts == {"YES", "yes ", "no", "Skip", "/refresh", "Refresh", "hello"}

\* text.strip()
Strip(text) == IF text = "yes " THEN "yes" ELSE text

Upper(text) ==
    CASE text = "yes" -> "YES"
      [] text = "no" -> "NO"
      [] text = "Skip" -> "SKIP"
      [] text = "/refresh" -> "/REFRESH"
      [] text = "Refresh" -> "REFRESH"
      [] text = "hello" -> "HELLO"
      [] OTHER -> text

Lower(text) ==
    CASE text = "YES" -> "yes"
      [] text = "Skip" -> "skip"
      [] text = "Refresh" -> "refresh"
      [] text = "DETAILS 2" -> "details 2"
      [] OTHER -> text

\* the texts of the item sub-commands
SubcommandTexts ==
    {"details 1", "DETAILS 2", "details x", "details  1",
     "feedback 1 too generic", "feedback 2 ok", "feedback 1", "feedback x bad"}

\* text.split(" ")
Words(text) ==
    CASE text = "details 1" -> <<"details", "1">>
      [] text = "details 2" -> <<"details", "2">>
      [] text = "DETAILS 2" -> <<"DETAILS", "2">>
      [] text = "details x" -> <<"details", "x">>
      [] text = "details  1" -> <<"details", "", "1">>
      [] text = "feedback 1 too generic" -> <<"feedback", "1", "too", "generic">>
      [] text = "feedback 2 ok" -> <<"feedback", "2", "ok">>
      [] text = "feedback 1" -> <<"feedback", "1">>
      [] text = "feedback x bad" -> <<"feedback", "x", "bad">>
      [] OTHER -> <<text>>

RECURSIVE Join(_)
\* " ".join(words)
Join(words) ==
    IF Len(words) = 1 THEN words[1] ELSE words[1] \o " " \o Join(Tail(words))

\* text.split(" ", 2): at most two splits, the rest left whole
Parts(text) ==
    LET w == Words(text)
    IN  IF Len(w) <= 3 THEN w ELSE <<w[1], w[2], Join(SubSeq(w, 3, Len(w)))>>

\* text.startswith(word + " ")
StartsWithWord(text, word) == Len(Words(text)) >= 2 /\ Words(text)[1] = word

\* int(word): the number, or ValueError
ParseInt(word) ==
    CASE word = "1" -> [ok |-> TRUE, v |-> 1]
      [] word = "2" -> [ok |-> TRUE, v |-> 2]
      [] OTHER -> [ok |-> FALSE, v |-> 0]

\* chat: the chat id the handler was called with
Handler(kind, where, num, arg) ==
    [kind |-> kind, pc |-> where, found |-> 0, num |-> num, arg |-> arg, chat |-> ""]

ChatIds == {"42", "7", ""}

\* the handler the text is dispatched to, at its first await
Dispatch(text) ==
    LET stripped == Strip(text) IN
    IF Upper(stripped) = "YES" THEN Handler("approval", "find_one", 0, "")
    ELSE IF Upper(stripped) \in {"NO", "SKIP"} THEN Handler("rejection", "update_many", 0, "")
    ELSE IF Lower(stripped) \in {"/refresh", "refresh"}
      THEN Handler("refresh", "find_running", 0, "")
    ELSE IF StartsWithWord(Lower(stripped), "details")
      THEN \* _handle_details up to its first await
           LET num == ParseInt(Words(stripped)[2])
           IN  IF num.ok THEN Handler("details", "find_latest", num.v, "")
               ELSE Handler("details", "send_usage", 0, "")
    ELSE IF StartsWithWord(Lower(stripped), "feedback")
      THEN \* _handle_feedback up to its first await
           LET parts == Parts(stripped)
           IN  IF Len(parts) >= 3 /\ ParseInt(parts[2]).ok
                 THEN Handler("feedback", "find_latest", ParseInt(parts[2]).v, parts[3])
                 ELSE Handler("feedback", "send_usage", 0, "")
    ELSE Handler("none", "return", 0, "")

Suspend(h) == handlers' = handlers (+) SetToBag({h})

\* the update posted to the webhook: the id of its chat ("" when the update
\* has no message or no chat) and its text ("" when it has none), up to the
\* first await of the handler it calls
telegram_webhook_update(chat_id, text) ==
    /\ Tasks < MaxTasks
    /\ IF chat_id # TELEGRAM_CHAT_ID
         THEN handlers' = handlers
         ELSE IF Dispatch(text).kind = "none"
           THEN handlers' = handlers
           ELSE Suspend([Dispatch(text) EXCEPT !.chat = chat_id])
    /\ outbox' = NoMsg
    /\ UNCHANGED <<config, now, db, pc, state, local>>

\* POST /api/telegram/webhook; the text of an update of another chat is
\* never read, one text stands for all of them
telegram_webhook ==
    \E chat_id \in ChatIds :
        \E text \in IF chat_id # TELEGRAM_CHAT_ID THEN {""} ELSE feed.texts \cup {""} :
            telegram_webhook_update(chat_id, text)

At(h, kind, where) == h \in BagToSet(handlers) /\ h.kind = kind /\ h.pc = where

Resume(h, h2) == handlers' = (handlers (-) SetToBag({h})) (+) SetToBag({h2})

Step(h, where) == Resume(h, [h EXCEPT !.pc = where])

Return(h) == handlers' = handlers (-) SetToBag({h})

Pending == {d \in DOMAIN digests : digests[d].status = "pending"}

\* the sort direction reversed: the oldest pending digest
get_pending_digest_ascending ==
    {d \in Pending : \A e \in Pending : digests[d].created_at <= digests[e].created_at}

\* find_one({"status": "pending"}, sort=[("created_at", -1)]): the documents it can return
get_pending_digest ==
    {d \in Pending : \A e \in Pending : digests[e].created_at <= digests[d].created_at}

\* _handle_approval: the lookup
approval_find(h) ==
    /\ At(h, "approval", "find_one")
    /\ IF Pending = {}
         THEN Step(h, "send_none")
         ELSE \E d \in get_pending_digest :
                 Resume(h, [h EXCEPT !.pc = "update_one", !.found = d])
    /\ outbox' = NoMsg
    /\ UNCHANGED <<config, now, db, pc, state, local>>

approval_none(h) ==
    /\ At(h, "approval", "send_none")
    /\ send_message("no_pending", 0)
    /\ Return(h)
    /\ UNCHANGED <<config, now, db, pc, state, local>>

\* update_one({"_id": pending["_id"]}, {"$set": {"status": "sent"}})
approval_update(h) ==
    /\ At(h, "approval", "update_one")
    /\ digests' = [digests EXCEPT ![h.found].status = "sent"]
    /\ Step(h, "send_chunks")
    /\ outbox' = NoMsg
    /\ UNCHANGED <<config, now, agent_runs, articles, user_feedback, pc, state, local>>

\* the loop over the chunks of the body, the result of each send dropped;
\* delivered: every chunk that is not blank was taken by the channel
approval_send(h) ==
    /\ At(h, "approval", "send_chunks")
    /\ \E delivered \in BOOLEAN :
          IF delivered THEN send_message("digest_body", h.found)
          ELSE outbox' = Undelivered("digest_body", h.found)
    /\ Return(h)
    /\ UNCHANGED <<config, now, db, pc, state, local>>

\* update_one in place of update_many: only one pending digest is rejected
rejection_update_one(h) ==
    /\ At(h, "rejection", "update_many")
    /\ IF Pending = {} THEN digests' = digests
       ELSE \E d \in Pending : digests' = [digests EXCEPT ![d].status = "rejected"]
    /\ Step(h, "send_skipped")
    /\ outbox' = NoMsg
    /\ UNCHANGED <<config, now, agent_runs, articles, user_feedback, pc, state, local>>

\* update_many({"status": "pending"}, {"$set": {"status": "rejected"}})
rejection_update(h) ==
    /\ At(h, "rejection", "update_many")
    /\ digests' = [d \in DOMAIN digests |->
                      IF digests[d].status = "pending"
                        THEN [digests[d] EXCEPT !.status = "rejected"]
                        ELSE digests[d]]
    /\ Step(h, "send_skipped")
    /\ outbox' = NoMsg
    /\ UNCHANGED <<config, now, agent_runs, articles, user_feedback, pc, state, local>>

rejection_send(h) ==
    /\ At(h, "rejection", "send_skipped")
    /\ send_message("digest_skipped", 0)
    /\ Return(h)
    /\ UNCHANGED <<config, now, db, pc, state, local>>

Running == {r \in Runs : agent_runs[r].status = "running"}

\* _handle_refresh: find_one({"status": "running"})
refresh_find(h) ==
    /\ At(h, "refresh", "find_running")
    /\ IF Running # {}
         THEN Step(h, "send_busy")
         ELSE /\ Len(agent_runs) + Promised < MaxRuns
              /\ Step(h, "send_refreshing")
    /\ outbox' = NoMsg
    /\ UNCHANGED <<config, now, db, pc, state, local>>

refresh_busy(h) ==
    /\ At(h, "refresh", "send_busy")
    /\ send_message("already_running", 0)
    /\ Return(h)
    /\ UNCHANGED <<config, now, db, pc, state, local>>

refresh_ack(h) ==
    /\ At(h, "refresh", "send_refreshing")
    /\ send_message("refreshing", 0)
    /\ Step(h, "insert_run")
    /\ UNCHANGED <<config, now, db, pc, state, local>>

\* insert_one of the run record, then asyncio.create_task(_run_agent_task(run_id))
refresh_start(h) ==
    /\ At(h, "refresh", "insert_run")
    /\ StartRun("telegram_refresh")
    /\ Return(h)
    /\ outbox' = NoMsg
    /\ UNCHANGED <<config, now, digests, articles, user_feedback>>

\* the digests the item sub-commands can be about
Recent == {d \in DOMAIN digests : digests[d].status \in {"sent", "pending"}}

\* the status left out of the query: the newest digest, whatever became of it
get_latest_digest_any_status ==
    {d \in DOMAIN digests : \A e \in DOMAIN digests : digests[e].created_at <= digests[d].created_at}

\* find_one({"status": {"$in": ["sent", "pending"]}}, sort=[("created_at", -1)])
get_latest_digest ==
    {d \in Recent : \A e \in Recent : digests[e].created_at <= digests[d].created_at}

\* art = articles[num - 1]: the item of the digest found that N stands for
art(h) == digests[h.found].articles[h.num]

\* _handle_details: the lookup and the range check that follows it
details_find(h) ==
    /\ At(h, "details", "find_latest")
    /\ IF get_latest_digest = {}
         THEN Step(h, "send_no_digest")
         ELSE \E d \in get_latest_digest :
                 IF ~(1 <= h.num /\ h.num <= Len(digests[d].articles))
                   THEN Resume(h, [h EXCEPT !.pc = "send_not_found", !.found = d])
                   ELSE Resume(h, [h EXCEPT !.pc = "send_item", !.found = d])
    /\ outbox' = NoMsg
    /\ UNCHANGED <<config, now, db, pc, state, local>>

\* _handle_details: the one message it sends
details_send(h) ==
    /\ h \in BagToSet(handlers)
    /\ h.kind = "details"
    /\ h.pc \in {"send_usage", "send_no_digest", "send_not_found", "send_item"}
    /\ send_message(CASE h.pc = "send_usage" -> "details_usage"
                      [] h.pc = "send_no_digest" -> "no_recent_digest"
                      [] h.pc = "send_not_found" -> "item_not_found"
                      [] OTHER -> "item_details",
                    IF h.pc = "send_item" THEN h.found ELSE h.num)
    /\ Return(h)
    /\ UNCHANGED <<config, now, db, pc, state, local>>

\* _handle_feedback: the lookup and the range check that follows it
feedback_find(h) ==
    /\ At(h, "feedback", "find_latest")
    /\ IF get_latest_digest = {}
         THEN Step(h, "send_thanks")
         ELSE \E d \in get_latest_digest :
                 IF 1 <= h.num /\ h.num <= Len(digests[d].articles)
                   THEN Resume(h, [h EXCEPT !.pc = "update_one", !.found = d])
                   ELSE Resume(h, [h EXCEPT !.pc = "send_thanks", !.found = d])
    /\ outbox' = NoMsg
    /\ UNCHANGED <<config, now, db, pc, state, local>>

\* db.articles.update_one({"url": ...}, {"$set": {"user_feedback": ...}}), no upsert
feedback_update(h) ==
    /\ At(h, "feedback", "update_one")
    /\ LET url == Get(art(h), "url", "")
       IN  user_feedback' = IF url \in DOMAIN articles
                              THEN Put(user_feedback, url, h.arg)
                              ELSE user_feedback
    /\ Step(h, "send_thanks")
    /\ outbox' = NoMsg
    /\ UNCHANGED <<config, now, digests, agent_runs, articles, pc, state, local>>

\* _handle_feedback: the one message it sends
feedback_send(h) ==
    /\ h \in BagToSet(handlers)
    /\ h.kind = "feedback"
    /\ h.pc \in {"send_usage", "send_thanks"}
    /\ send_message(IF h.pc = "send_usage" THEN "feedback_usage" ELSE "feedback_noted", h.num)
    /\ Return(h)
    /\ UNCHANGED <<config, now, db, pc, state, local>>

\* ----------------------------------------------------------- specification
InFlight == BagToSet(handlers)

Next ==
    \/ trigger_agent
    \/ telegram_webhook
    \/ \E r \in Runs : fetch_all_sources(r)
    \/ \E r \in Runs : deduplicate_articles(r)
    \/ \E r \in Runs : validate_articles(r)
    \/ \E r \in Runs : cross_reference_check(r)
    \/ \E r \in Runs : filter_and_build_digest(r)
    \/ \E r \in Runs : send_approval_request(r)
    \/ \E r \in Runs : save_results(r)
    \/ \E r \in Runs : save_digest(r)
    \/ \E r \in Runs : save_run(r)
    \/ \E r \in Runs : mark_failed(r)
    \/ \E r \in Runs : notify_failed(r)
    \/ \E h \in InFlight : approval_find(h)
    \/ \E h \in InFlight : approval_none(h)
    \/ \E h \in InFlight : approval_update(h)
    \/ \E h \in InFlight : approval_send(h)
    \/ \E h \in InFlight : rejection_update(h)
    \/ \E h \in InFlight : rejection_send(h)
    \/ \E h \in InFlight : refresh_find(h)
    \/ \E h \in InFlight : refresh_busy(h)
    \/ \E h \in InFlight : refresh_ack(h)
    \/ \E h \in InFlight : refresh_start(h)

Spec == Init /\ [][Next]_vars

\* ---------------------------------- the two gathers, one remote call a step
\* validate_articles and cross_reference_check with every task of their
\* asyncio.gather taken apart at its awaits: waiting at the semaphore, in
\* flight (inside "async with semaphore", at the remote call), done.
VALIDATE_CONCURRENCY == 5

XREF_CONCURRENCY == 5

Gather(r, calls, results, ooo) ==
    local' = [local EXCEPT ![r].calls = calls, ![r].results = results,
                           ![r].out_of_order = ooo,
                           ![r].store_ok = TRUE, ![r].replies = <<>>, ![r].lookups = <<>>]

InFlightCalls(r) == Cardinality({i \in DOMAIN local[r].calls : local[r].calls[i] = "in_flight"})

\* a task returns while a task created before it has not
ReturnsEarly(r, i) == \E j \in 1..(i - 1) : local[r].calls[j] \in {"waiting", "in_flight"}

\* validate_articles up to the gather: one task per article
validate_start(r) ==
    /\ pc[r] = "validate_articles"
    /\ LET batch == state[r].deduplicated
       IN  IF batch = <<>>
             THEN /\ Update(r, [validated |-> <<>>])
                  /\ Goto(r, "cross_reference")
                  /\ Gather(r, <<>>, <<>>, FALSE)
             ELSE /\ state' = state
                  /\ Goto(r, "validate_gather")
                  \* without a token every task returns at once, no call is made
                  /\ IF HF_TOKEN
                       THEN Gather(r, [i \in DOMAIN batch |-> "waiting"], batch, FALSE)
                       ELSE Gather(r, [i \in DOMAIN batch |-> "done"],
                                   [i \in DOMAIN batch |-> _rule_based(batch[i])], FALSE)
    /\ outbox' = NoMsg
    /\ UNCHANGED <<config, now, db, handlers>>

\* "async with semaphore" of task i: entered when a permit is free
validate_acquire(r, i) ==
    /\ pc[r] = "validate_gather"
    /\ i \in DOMAIN local[r].calls
    /\ local[r].calls[i] = "waiting"
    /\ InFlightCalls(r) < VALIDATE_CONCURRENCY
    /\ local' = [local EXCEPT ![r].calls[i] = "in_flight"]
    /\ outbox' = NoMsg
    /\ UNCHANGED <<config, now, db, pc, state, handlers>>

\* client.post of task i answers or raises; the task returns and the permit is free
validate_return(r, i) ==
    /\ pc[r] = "validate_gather"
    /\ i \in DOMAIN local[r].calls
    /\ local[r].calls[i] = "in_flight"
    /\ \E reply \in feed.replies :
          local' = [local EXCEPT ![r].calls[i] = "done",
                                 ![r].results[i] = _validate_one(state[r].deduplicated[i],
                                                                 HF_TOKEN, reply),
                                 ![r].out_of_order = @ \/ ReturnsEarly(r, i)]
    /\ outbox' = NoMsg
    /\ UNCHANGED <<config, now, db, pc, state, handlers>>

\* the results handed back in the order of the tasks, whatever order they ended in
validate_join_reversed(r) ==
    /\ pc[r] = "validate_gather"
    /\ \A i \in DOMAIN local[r].calls : local[r].calls[i] = "done"
    /\ LET n == Len(local[r].results)
           validated == [i \in 1..n |-> local[r].results[n + 1 - i]]
       IN  Update(r, [validated |-> validated,
                      stats |-> [verified |-> CountStatus(validated, "verified"),
                                 unverified |-> CountStatus(validated, "unverified"),
                                 conflicting |-> CountStatus(validated, "conflicting")]
                                @@ state[r].stats])
    /\ Goto(r, "cross_reference")
    /\ local' = [local EXCEPT ![r].calls = <<>>, ![r].results = <<>>]
    /\ outbox' = NoMsg
    /\ UNCHANGED <<config, now, db, handlers>>

\* await asyncio.gather(*tasks) returns: the results in the order of the tasks
validate_join(r) ==
    /\ pc[r] = "validate_gather"
    /\ \A i \in DOMAIN local[r].calls : local[r].calls[i] = "done"
    /\ LET validated == local[r].results
       IN  Update(r, [validated |-> validated,
                      stats |-> [verified |-> CountStatus(validated, "verified"),
                                 unverified |-> CountStatus(validated, "unverified"),
                                 conflicting |-> CountStatus(validated, "conflicting")]
                                @@ state[r].stats])
    /\ Goto(r, "cross_reference")
    /\ local' = [local EXCEPT ![r].calls = <<>>, ![r].results = <<>>]
    /\ outbox' = NoMsg
    /\ UNCHANGED <<config, now, db, handlers>>

\* cross_reference_check up to the gather: one task per article in scope
xref_start(r) ==
    /\ pc[r] = "cross_reference"
    /\ LET arts == state[r].validated
       IN  IF \A i \in DOMAIN arts : ~InScope(arts[i])
             THEN /\ Update(r, [validated |-> arts])
                  /\ Goto(r, "build_digest")
                  /\ Gather(r, <<>>, <<>>, FALSE)
             ELSE /\ state' = state
                  /\ Goto(r, "xref_gather")
                  /\ Gather(r, [i \in DOMAIN arts |-> IF InScope(arts[i]) THEN "waiting"
                                                        ELSE "none"],
                            arts, FALSE)
    /\ outbox' = NoMsg
    /\ UNCHANGED <<config, now, db, handlers>>

\* the semaphore left out of check_one
xref_acquire_unbounded(r, i) ==
    /\ pc[r] = "xref_gather"
    /\ i \in DOMAIN local[r].calls
    /\ local[r].calls[i] = "waiting"
    /\ local' = [local EXCEPT ![r].calls[i] = "in_flight"]
    /\ outbox' = NoMsg
    /\ UNCHANGED <<config, now, db, pc, state, handlers>>

\* "async with semaphore" of check_one on article i
xref_acquire(r, i) ==
    /\ pc[r] = "xref_gather"
    /\ i \in DOMAIN local[r].calls
    /\ local[r].calls[i] = "waiting"
    /\ InFlightCalls(r) < XREF_CONCURRENCY
    /\ local' = [local EXCEPT ![r].calls[i] = "in_flight"]
    /\ outbox' = NoMsg
    /\ UNCHANGED <<config, now, db, pc, state, handlers>>

\* the search of article i answers or fails; check_one changes the article in place
xref_return(r, i) ==
    /\ pc[r] = "xref_gather"
    /\ i \in DOMAIN local[r].calls
    /\ local[r].calls[i] = "in_flight"
    /\ \E kind \in feed.lookups :
          LET a == local[r].results[i]
              own == Get(a, "source_domain", "")
              count == _count_confirming_sources(Lookup(kind, own), own)
          IN  IF CheckOneRaises(a, count)
                THEN /\ Raise(r, "TypeError")
                ELSE /\ local' = [local EXCEPT ![r].calls[i] = "done",
                                               ![r].results[i] = check_one(a, count),
                                               ![r].out_of_order = @ \/ ReturnsEarly(r, i)]
                     /\ pc' = pc
    /\ outbox' = NoMsg
    /\ UNCHANGED <<config, now, db, state, handlers>>

\* the gather returns: the list is the list that came in, its articles changed in place
xref_join(r) ==
    /\ pc[r] = "xref_gather"
    /\ \A i \in DOMAIN local[r].calls : local[r].calls[i] \in {"done", "none"}
    /\ LET out == local[r].results
       IN  Update(r, [validated |-> out,
                      stats |-> Put(state[r].stats, "verified_after_xref",
                                    CountStatus(out, "verified"))])
    /\ Goto(r, "build_digest")
    /\ local' = [local EXCEPT ![r].calls = <<>>, ![r].results = <<>>]
    /\ outbox' = NoMsg
    /\ UNCHANGED <<config, now, db, handlers>>

\* ------------------------------------------ the deduplicator on long batches
\* One run up to the end of its deduplicate stage, over batches longer than
\* the cap and stores that hold urls seen inside and outside the window.
\* Time is counted in days.
DedupNow == 10

DedupUrl(k) == "https://economictimes.com/" \o ToString(k)

DedupBatch(ks) ==
    [i \in DOMAIN ks |-> Item(DedupUrl(ks[i]), "economictimes.com", "finance", {})]

DedupBatches ==
    {DedupBatch(ks) : ks \in {<<>>, <<1>>, <<1, 2>>, <<2, 1>>, <<1, 2, 3>>, <<3, 1, 2>>,
                              [i \in 1..DEDUP_CAP |-> i],
                              [i \in 1..(DEDUP_CAP + 1) |-> i],
                              [i \in 1..(DEDUP_CAP + 2) |-> i],
                              [i \in 1..(DEDUP_CAP + 2) |-> DEDUP_CAP + 3 - i]}}

\* a store that saw the urls of recent on the first day of the window and
\* the urls of old on the day before it
DedupStore(recent, old) ==
    [u \in {DedupUrl(k) : k \in recent \cup old} |->
        IF u \in {DedupUrl(k) : k \in recent} THEN DedupNow - DEDUP_WINDOW
        ELSE DedupNow - DEDUP_WINDOW - 1]

DedupStores ==
    {DedupStore({}, {}), DedupStore({1}, {}), DedupStore({1}, {2}), DedupStore({2}, {1, 3}),
     DedupStore({}, {1, 2, 3}), DedupStore(1..(DEDUP_CAP + 2), {})}

DedupInit ==
    /\ TELEGRAM_CHAT_ID = "42"
    /\ HF_TOKEN = TRUE
    /\ AGENT_SECRET_KEY = "s3cret"
    /\ feed = [batches |-> DedupBatches, replies |-> {ReplyException}, lookups |-> {"failed"}]
    /\ now = DedupNow
    /\ digests = <<>>
    /\ agent_runs = <<>>
    /\ articles \in DedupStores
    /\ user_feedback = EmptyDict
    /\ pc = <<>>
    /\ state = <<>>
    /\ local = <<>>
    /\ handlers = EmptyBag
    /\ outbox = NoMsg
    /\ splitter = NoSplit

DedupNext ==
    \/ (agent_runs = <<>> /\ trigger_agent)
    \/ \E r \in Runs : fetch_all_sources(r)
    \/ \E r \in Runs : deduplicate_articles(r)

DedupSpec == DedupInit /\ [][DedupNext]_vars

\* ------------------------------------------ the pipeline of a single run
\* One run over every batch of at most MaxBatch items, every answer of the
\* classification service and every corroboration count.
PipelineInit ==
    /\ TELEGRAM_CHAT_ID \in {"", "42"}
    /\ HF_TOKEN \in BOOLEAN
    /\ AGENT_SECRET_KEY = "s3cret"
    /\ feed = PipelineFeed
    /\ now = 0
    /\ digests = <<>>
    /\ agent_runs = <<>>
    /\ articles = EmptyDict
    /\ user_feedback = EmptyDict
    /\ pc = <<>>
    /\ state = <<>>
    /\ local = <<>>
    /\ handlers = EmptyBag
    /\ outbox = NoMsg
    /\ splitter = NoSplit

PipelineNext ==
    \/ (agent_runs = <<>> /\ trigger_agent)
    \/ \E r \in Runs : fetch_all_sources(r)
    \/ \E r \in Runs : deduplicate_articles(r)
    \/ \E r \in Runs : validate_articles(r)
    \/ \E r \in Runs : cross_reference_check(r)
    \/ \E r \in Runs : filter_and_build_digest(r)
    \/ \E r \in Runs : send_approval_request(r)
    \/ \E r \in Runs : save_results(r)
    \/ \E r \in Runs : save_digest(r)
    \/ \E r \in Runs : save_run(r)
    \/ \E r \in Runs : mark_failed(r)
    \/ \E r \in Runs : notify_failed(r)

PipelineSpec == PipelineInit /\ [][PipelineNext]_vars

\* ------------------------------------- a single run, its gathers taken apart
GatherItems == [i \in 1..MaxGather |-> i]

GatherInit ==
    /\ TELEGRAM_CHAT_ID = "42"
    /\ HF_TOKEN = TRUE
    /\ AGENT_SECRET_KEY = "s3cret"
    /\ feed = [batches |-> {DedupBatch(GatherItems)},
               replies |-> {ReplyException, ReplyVerified},
               lookups |-> {"failed", "two"}]
    /\ now = 0
    /\ digests = <<>>
    /\ agent_runs = <<>>
    /\ articles = EmptyDict
    /\ user_feedback = EmptyDict
    /\ pc = <<>>
    /\ state = <<>>
    /\ local = <<>>
    /\ handlers = EmptyBag
    /\ outbox = NoMsg
    /\ splitter = NoSplit

GatherNext ==
    \/ (agent_runs = <<>> /\ trigger_agent)
    \/ \E r \in Runs : fetch_all_sources(r)
    \/ \E r \in Runs : deduplicate_articles(r)
    \/ \E r \in Runs : validate_start(r)
    \/ \E r \in Runs : \E i \in 1..MaxGather : validate_acquire(r, i)
    \/ \E r \in Runs : \E i \in 1..MaxGather : validate_return(r, i)
    \/ \E r \in Runs : validate_join(r)
    \/ \E r \in Runs : xref_start(r)
    \/ \E r \in Runs : \E i \in 1..MaxGather : xref_acquire(r, i)
    \/ \E r \in Runs : \E i \in 1..MaxGather : xref_return(r, i)
    \/ \E r \in Runs : xref_join(r)

GatherSpec == GatherInit /\ [][GatherNext]_vars

\* ---------------------------------------- the digest stage on long lists
\* A run that has come to filter_and_build_digest with a validated list of up
\* to MaxDigestInput articles, as the validation stage leaves them.
DigestSchemes == {"descending", "ascending", "ties", "boosted", "mixed"}

BoostKeywords == <<"upi", "cashback", "reward", "lounge">>

\* article k of a fetched batch under a scheme
DigestItem(k, scheme) ==
    Item(DedupUrl(k), "economictimes.com",
         IF scheme = "boosted" THEN "finance" ELSE CATEGORY_ORDER[(k % 3) + 1],
         IF scheme = "boosted" THEN {BoostKeywords[i] : i \in 1..(k % 5)} ELSE {})

\* the article as {**article, **parsed} leaves it
DigestValidated(k, scheme) ==
    LET status == IF scheme = "mixed"
                    THEN <<"verified", "unverified", "conflicting">>[(k % 3) + 1]
                    ELSE "verified"
        score == CASE scheme = "descending" -> 100 - k
                   [] scheme = "ascending" -> 50 + k
                   [] scheme = "ties" -> 70
                   [] scheme = "boosted" -> 60
                   [] OTHER -> 40 + ((k * 7) % 30)
        base == Merge(DigestItem(k, scheme),
                      [validation_status |-> status, credibility_score |-> JInt(score),
                       source_type |-> "news", reasoning |-> <<"llm">>])
    IN  IF scheme # "mixed" \/ k % 4 \in {0, 1} THEN Put(base, "is_actionable", TRUE)
        ELSE IF k % 4 = 2 THEN Put(base, "is_actionable", FALSE)
        ELSE base

DigestInit ==
    /\ TELEGRAM_CHAT_ID = "42"
    /\ HF_TOKEN = TRUE
    /\ AGENT_SECRET_KEY = "s3cret"
    /\ feed = [batches |-> {}, replies |-> {}, lookups |-> {}]
    /\ now = 0
    /\ digests = <<>>
    /\ articles = EmptyDict
    /\ user_feedback = EmptyDict
    /\ agent_runs = <<[status |-> "running", triggered_by |-> "http", error |-> "",
                       stats |-> EmptyDict, errors |-> <<>>]>>
    /\ pc = <<"build_digest">>
    /\ \E n \in 0..MaxDigestInput : \E scheme \in DigestSchemes :
          LET batch == [k \in 1..n |-> DigestItem(k, scheme)]
              validated == [k \in 1..n |-> DigestValidated(k, scheme)]
          IN  state = <<[initial_state(1) EXCEPT
                           !.raw_articles = batch,
                           !.deduplicated = batch,
                           !.validated = validated,
                           !.stats = [total_fetched |-> n, translated |-> 0,
                                      after_dedup |-> n,
                                      verified |-> CountStatus(validated, "verified"),
                                      unverified |-> CountStatus(validated, "unverified"),
                                      conflicting |-> CountStatus(validated, "conflicting")]]>>
    /\ local = <<NoLocal>>
    /\ handlers = EmptyBag
    /\ outbox = NoMsg
    /\ splitter = NoSplit

DigestNext ==
    \/ \E r \in Runs : filter_and_build_digest(r)
    \/ \E r \in Runs : send_approval_request(r)

DigestSpec == DigestInit /\ [][DigestNext]_vars

\* --------------------------------------- the workflow with the item sub-commands
SubcommandFeed ==
    [batches |-> {<<ItemGovt>>},
     replies |-> {ReplyVerified},
     lookups |-> {"two"},
     texts |-> {"YES", "no"} \cup SubcommandTexts]

SubcommandInit ==
    /\ TELEGRAM_CHAT_ID = "42"
    /\ HF_TOKEN = TRUE
    /\ AGENT_SECRET_KEY = "s3cret"
    /\ feed = SubcommandFeed
    /\ now = 0
    /\ digests = <<>>
    /\ agent_runs = <<>>
    /\ articles = EmptyDict
    /\ user_feedback = EmptyDict
    /\ pc = <<>>
    /\ state = <<>>
    /\ local = <<>>
    /\ handlers = EmptyBag
    /\ outbox = NoMsg
    /\ splitter = NoSplit

SubcommandNext ==
    \/ trigger_agent
    \/ telegram_webhook
    \/ \E r \in Runs : fetch_all_sources(r)
    \/ \E r \in Runs : deduplicate_articles(r)
    \/ \E r \in Runs : validate_articles(r)
    \/ \E r \in Runs : cross_reference_check(r)
    \/ \E r \in Runs : filter_and_build_digest(r)
    \/ \E r \in Runs : send_approval_request(r)
    \/ \E r \in Runs : save_results(r)
    \/ \E r \in Runs : save_digest(r)
    \/ \E r \in Runs : save_run(r)
    \/ \E h \in InFlight : approval_find(h)
    \/ \E h \in InFlight : approval_none(h)
    \/ \E h \in InFlight : approval_update(h)
    \/ \E h \in InFlight : approval_send(h)
    \/ \E h \in InFlight : rejection_update(h)
    \/ \E h \in InFlight : rejection_send(h)
    \/ \E h \in InFlight : details_find(h)
    \/ \E h \in InFlight : details_send(h)
    \/ \E h \in InFlight : feedback_find(h)
    \/ \E h \in InFlight : feedback_update(h)
    \/ \E h \in InFlight : feedback_send(h)

SubcommandSpec == SubcommandInit /\ [][SubcommandNext]_vars

\* --------------------------------------------- the splitter on its own
\* the paragraphs the texts are made of: empty, short, with whitespace at an
\* end, beginning with a line break, half the limit, the limit, beyond it
Paragraphs ==
    {<<>>, Run("x", 10), Run(" ", 1) \o Run("x", 10), Run("x", 10) \o Run(" ", 1),
     Run("\n", 1) \o Run("x", 10),
     Run("x", (_MAX_TG_CHARS \div 2) - 1), Run("x", _MAX_TG_CHARS \div 2),
     Run("x", _MAX_TG_CHARS), Run("x", _MAX_TG_CHARS + 1),
     Run("x", 2 * _MAX_TG_CHARS + 400)}

SplitTexts == {JoinParagraphs(ps) : ps \in SeqsUpTo(Paragraphs, MaxParagraphs)}

SplitInit ==
    /\ TELEGRAM_CHAT_ID = "42"
    /\ HF_TOKEN = TRUE
    /\ AGENT_SECRET_KEY = "s3cret"
    /\ feed = [batches |-> {}, replies |-> {}, lookups |-> {}, texts |-> {}]
    /\ now = 0
    /\ digests = <<>>
    /\ agent_runs = <<>>
    /\ articles = EmptyDict
    /\ user_feedback = EmptyDict
    /\ pc = <<>>
    /\ state = <<>>
    /\ local = <<>>
    /\ handlers = EmptyBag
    /\ outbox = NoMsg
    /\ \E text \in SplitTexts : splitter = [NoSplit EXCEPT !.text = text]

\* chunks = _split_telegram_message(digest_text)
split_telegram_message ==
    /\ ~splitter.done
    /\ splitter' = [splitter EXCEPT !.chunks = _split_telegram_message(splitter.text),
                                    !.done = TRUE]
    /\ UNCHANGED <<TELEGRAM_CHAT_ID, HF_TOKEN, AGENT_SECRET_KEY, feed, now, db, pc, state, local,
                   handlers, outbox>>

SplitNext == split_telegram_message

SplitSpec == SplitInit /\ [][SplitNext]_vars

\* ------------------------------------ the trigger endpoint and the runs it starts
TriggerInit ==
    /\ TELEGRAM_CHAT_ID = "42"
    /\ HF_TOKEN = TRUE
    /\ AGENT_SECRET_KEY \in {"", "s3cret"}
    /\ feed = WorkflowFeed
    /\ now = 0
    /\ digests = <<>>
    /\ agent_runs = <<>>
    /\ articles = EmptyDict
    /\ user_feedback = EmptyDict
    /\ pc = <<>>
    /\ state = <<>>
    /\ local = <<>>
    /\ handlers = EmptyBag
    /\ outbox = NoMsg
    /\ splitter = NoSplit

TriggerNext ==
    \/ trigger_agent
    \/ \E r \in Runs : fetch_all_sources(r)
    \/ \E r \in Runs : deduplicate_articles(r)
    \/ \E r \in Runs : validate_articles(r)
    \/ \E r \in Runs : cross_reference_check(r)
    \/ \E r \in Runs : filter_and_build_digest(r)
    \/ \E r \in Runs : send_approval_request(r)
    \/ \E r \in Runs : save_results(r)
    \/ \E r \in Runs : save_digest(r)
    \/ \E r \in Runs : save_run(r)
    \/ \E r \in Runs : mark_failed(r)
    \/ \E r \in Runs : notify_failed(r)

TriggerSpec == TriggerInit /\ [][TriggerNext]_vars

\* ----------------------- a digest of several categories and its item sub-commands
\* A run that has come to filter_and_build_digest with up to MaxItemInput
\* validated articles, its later stages, and the details and feedback
\* handlers of the updates posted meanwhile.
ItemInit ==
    /\ TELEGRAM_CHAT_ID = "42"
    /\ HF_TOKEN = TRUE
    /\ AGENT_SECRET_KEY = "s3cret"
    /\ feed = [batches |-> {}, replies |-> {}, lookups |-> {}, texts |-> SubcommandTexts]
    /\ now = 0
    /\ digests = <<>>
    /\ user_feedback = EmptyDict
    /\ agent_runs = <<[status |-> "running", triggered_by |-> "http", error |-> "",
                       stats |-> EmptyDict, errors |-> <<>>]>>
    /\ pc = <<"build_digest">>
    /\ \E n \in 0..MaxItemInput : \E scheme \in DigestSchemes :
          LET batch == [k \in 1..n |-> DigestItem(k, scheme)]
              validated == [k \in 1..n |-> DigestValidated(k, scheme)]
          IN  /\ articles = EmptyDict
              /\ state = <<[initial_state(1) EXCEPT
                              !.raw_articles = batch,
                              !.deduplicated = batch,
                              !.validated = validated,
                              !.stats = [total_fetched |-> n, translated |-> 0,
                                         after_dedup |-> n,
                                         verified |-> CountStatus(validated, "verified"),
                                         unverified |-> CountStatus(validated, "unverified"),
                                         conflicting |-> CountStatus(validated, "conflicting")]]>>
    /\ local = <<NoLocal>>
    /\ handlers = EmptyBag
    /\ outbox = NoMsg
    /\ splitter = NoSplit

ItemNext ==
    \/ telegram_webhook
    \/ \E r \in Runs : filter_and_build_digest(r)
    \/ \E r \in Runs : send_approval_request(r)
    \/ \E r \in Runs : save_results(r)
    \/ \E r \in Runs : save_digest(r)
    \/ \E r \in Runs : save_run(r)
    \/ \E h \in InFlight : details_find(h)
    \/ \E h \in InFlight : details_send(h)
    \/ \E h \in InFlight : feedback_find(h)
    \/ \E h \in InFlight : feedback_update(h)
    \/ \E h \in InFlight : feedback_send(h)

ItemSpec == ItemInit /\ [][ItemNext]_vars

\* ------------------------------------- one run after another over the same urls
\* Runs started one at a time, each after the one before it has ended, over
\* batches that share urls, one of them longer than the cap.
RerunFeed ==
    [batches |-> {DedupBatch(<<1>>), DedupBatch(<<2, 1>>),
                  DedupBatch([i \in 1..(DEDUP_CAP + 1) |-> i]),
                  DedupBatch(<<DEDUP_CAP + 1, 1>>)},
     replies |-> {ReplyVerified},
     lookups |-> {"two"},
     texts |-> {}]

RerunInit ==
    /\ TELEGRAM_CHAT_ID = ""
    /\ HF_TOKEN = TRUE
    /\ AGENT_SECRET_KEY = "s3cret"
    /\ feed = RerunFeed
    /\ now = 0
    /\ digests = <<>>
    /\ agent_runs = <<>>
    /\ articles = EmptyDict
    /\ user_feedback = EmptyDict
    /\ pc = <<>>
    /\ state = <<>>
    /\ local = <<>>
    /\ handlers = EmptyBag
    /\ outbox = NoMsg
    /\ splitter = NoSplit

RerunNext ==
    \/ ((\A r \in Runs : pc[r] = "END") /\ trigger_agent)
    \/ \E r \in Runs : fetch_all_sources(r)
    \/ \E r \in Runs : deduplicate_articles(r)
    \/ \E r \in Runs : validate_articles(r)
    \/ \E r \in Runs : cross_reference_check(r)
    \/ \E r \in Runs : filter_and_build_digest(r)
    \/ \E r \in Runs : send_approval_request(r)
    \/ \E r \in Runs : save_results(r)
    \/ \E r \in Runs : save_digest(r)
    \/ \E r \in Runs : save_run(r)

RerunSpec == RerunInit /\ [][RerunNext]_vars


\* ================================================================== claims
Status(d) == digests[d].status

BuildDone(r) ==
    /\ pc[r] \in {"send_approval", "save_results", "save_digest", "save_run", "END"}
    /\ local[r].error = ""

ApprovalDone(r) ==
    /\ pc[r] \in {"save_results", "save_digest", "save_run", "END"}
    /\ local[r].error = ""

DigestsOf(r) == {d \in DOMAIN digests : digests[d].run_id = r}

\* C1: once a digest's stored status is sent or rejected, no step of any
\* webhook handler, in any interleaving, changes that status.
Terminality ==
    [][\A d \in DOMAIN digests :
          Status(d) \in {"sent", "rejected"} => digests'[d].status = Status(d)]_vars

\* C2: the lookup of a YES picks a pending digest that no pending digest is
\* newer than (created_at) and changes no digest; the update that follows turns
\* exactly the digest picked to sent and leaves every other digest as it is;
\* with no digest pending the YES changes no digest and the user is sent the
\* "no pending digest" message.
YesSendsMostRecentPending ==
    [][\A h \in InFlight :
          /\ (approval_find(h) /\ Pending # {}) =>
                /\ digests' = digests
                /\ \E d \in Pending :
                      /\ \A e \in Pending : digests[e].created_at <= digests[d].created_at
                      /\ handlers' = (handlers (-) SetToBag({h}))
                                       (+) SetToBag({[h EXCEPT !.pc = "update_one",
                                                                    !.found = d]})
          /\ approval_update(h) =>
                /\ DOMAIN digests' = DOMAIN digests
                /\ digests'[h.found].status = "sent"
                /\ \A d \in DOMAIN digests : d # h.found => digests'[d] = digests[d]
          /\ (approval_find(h) /\ Pending = {}) =>
                /\ digests' = digests
                /\ handlers' = (handlers (-) SetToBag({h}))
                                 (+) SetToBag({[h EXCEPT !.pc = "send_none"]})
          /\ approval_none(h) =>
                /\ digests' = digests
                /\ outbox' = Msg("no_pending", 0)]_vars

\* C2 witness: a YES has sent one digest while another pending digest, not
\* newer than it, is still pending.
YesLeftOlderPending ==
    \E d, e \in DOMAIN digests :
        /\ Status(d) = "sent"
        /\ Status(e) = "pending"
        /\ digests[e].created_at <= digests[d].created_at
        /\ outbox = Msg("digest_body", d)

\* C3: the update of a NO or SKIP turns every pending digest to rejected,
\* leaves no digest pending and leaves every sent or rejected digest as it
\* is; when nothing is pending it changes nothing.
NoRejectsEveryPending ==
    [][\A h \in InFlight :
          rejection_update(h) =>
              /\ DOMAIN digests' = DOMAIN digests
              /\ \A d \in DOMAIN digests :
                    /\ Status(d) = "pending" => digests'[d].status = "rejected"
                    /\ Status(d) # "pending" => digests'[d] = digests[d]
              /\ \A d \in DOMAIN digests' : digests'[d].status # "pending"
              /\ (Pending = {} => digests' = digests)]_vars

\* C3 witness: a NO has just been answered, a digest is rejected and a digest
\* sent earlier is still sent.
NoKeptSentDigest ==
    /\ outbox = Msg("digest_skipped", 0)
    /\ \E d, e \in DOMAIN digests : Status(d) = "rejected" /\ Status(e) = "sent"

\* C4 as claimed: at most one stored digest is pending at a time.
AtMostOnePending == Cardinality(Pending) <= 1

\* C4 as amended: a run stores at most one digest, so at most one digest of a
\* run is pending; digests of different runs can be pending together.
OneDigestPerRun ==
    \A d, e \in DOMAIN digests : digests[d].run_id = digests[e].run_id => d = e

\* C4 witness: the digests of two runs are pending at the same time.
TwoRunsPending ==
    \E d, e \in Pending : digests[d].run_id # digests[e].run_id

\* C5: a run that ends with the chat id not configured and at least one
\* actionable item has approval status skipped and no digest of it is stored
\* with status pending.
UnconfiguredChannelStoresNoPending ==
    \A r \in Runs :
        (pc[r] = "END" /\ local[r].error = "" /\ TELEGRAM_CHAT_ID = ""
           /\ state[r].actionable # <<>>) =>
            /\ state[r].approval_status = "skipped"
            /\ \A d \in DigestsOf(r) : Status(d) # "pending"

\* C6: a run whose filtered-and-capped list is empty has an empty digest body
\* and actionable = 0 in its stats, ends with approval status skipped, stores
\* no digest, and is recorded completed (never failed) when the store answered
\* every write of the save stage.
EmptyRunIsCompletedWithoutDigest ==
    \A r \in Runs :
        (BuildDone(r) /\ state[r].actionable = <<>>) =>
            /\ state[r].digest = <<>>
            /\ Get(state[r].stats, "actionable", -1) = 0
            /\ ApprovalDone(r) => state[r].approval_status = "skipped"
            /\ DigestsOf(r) = {}
            /\ agent_runs[r].status # "failed"
            /\ (pc[r] = "END" /\ ~local[r].save_fault) =>
                  /\ agent_runs[r].status = "completed"
                  /\ Get(agent_runs[r].stats, "actionable", -1) = 0

\* C6 witness: a run that validated items, found none actionable, and ended
\* completed.
EmptyRunEnded ==
    \E r \in Runs :
        /\ pc[r] = "END"
        /\ state[r].validated # <<>>
        /\ state[r].actionable = <<>>
        /\ agent_runs[r].status = "completed"

\* C7: a run whose save stage met a store fault ends with its record failed
\* and the exception message recorded.
SaveFaultMarksRunFailed ==
    \A r \in Runs :
        (pc[r] = "END" /\ local[r].save_fault) =>
            /\ agent_runs[r].status = "failed"
            /\ agent_runs[r].error # ""

\* C8: at most one run record has status running.
SingleFlight == Cardinality(Running) <= 1


Validated(r) ==
    IF pc[r] \in {"fetch_sources", "deduplicate", "validate_articles"} THEN <<>>
    ELSE state[r].validated

\* C9: every item the validation stage put out, and every item after the
\* corroboration stage, has an integer credibility_score in 0..100.
ScoreIsIntegerInRange ==
    \A r \in Runs : \A i \in DOMAIN Validated(r) :
        LET a == Validated(r)[i] IN
        /\ Has(a, "credibility_score")
        /\ a.credibility_score.t = "int"
        /\ 0 <= a.credibility_score.v
        /\ a.credibility_score.v <= 100

\* C10: every validated item has a validation_status, one of verified,
\* unverified, conflicting.
StatusIsOneOfThree ==
    \A r \in Runs : \A i \in DOMAIN Validated(r) :
        /\ Has(Validated(r)[i], "validation_status")
        /\ Validated(r)[i].validation_status \in {"verified", "unverified", "conflicting"}


\* the fields of an Item
ITEM_FIELDS == {"url", "title", "source_domain", "category", "published_at"}

\* C11: a validated item keeps the url, title, source_domain, category and
\* published_at of the item it was made from, whatever keys the reply carries.
ValidatedKeepsItemFields ==
    \A r \in Runs : \A i \in DOMAIN Validated(r) : \A k \in ITEM_FIELDS :
        Validated(r)[i][k] = state[r].deduplicated[i][k]

\* the remote call of item i gave nothing to use: it raised or timed out,
\* answered non-200, or its body is no JSON object
CallFailed(r, i) ==
    local[r].replies[i].kind \in {"exception", "non200", "unparsable", "nondict"}

\* C12: the validation stage never raises and returns one validated item per
\* input item, in order; an item whose call is unconfigured or failed is the
\* rule-based result for that item, and every other item is resolved from its
\* own reply, whatever happened to its neighbours.
ValidationResolvesEveryItem ==
    [][\A r \in Runs :
         (pc[r] = "validate_articles" /\ pc'[r] # "validate_articles") =>
            LET in == state[r].deduplicated
                out == state'[r].validated
            IN  /\ pc'[r] = "cross_reference"
                /\ Len(out) = Len(in)
                /\ \A i \in DOMAIN in :
                     IF ~HF_TOKEN \/ CallFailed(r, i)'
                       THEN out[i] = _rule_based(in[i])
                       ELSE out[i] \in {_rule_based(in[i]),
                                        Merge(in[i], local'[r].replies[i].parsed)}]_vars

\* C12 witness: of two items one call raised and the other was answered, and
\* both are resolved
OneCallFailedOtherAnswered ==
    \E r \in Runs :
        /\ pc[r] = "cross_reference"
        /\ HF_TOKEN
        /\ Len(state[r].deduplicated) = 2
        /\ local[r].replies[1].kind = "exception"
        /\ local[r].replies[2] = ReplyVerified
        /\ state[r].validated[1].credibility_score = JInt(72)
        /\ state[r].validated[2].credibility_score = JInt(95)

\* item i of run r was resolved by the rule-based fallback
FellBack(r, i) ==
    \/ ~HF_TOKEN
    \/ CallFailed(r, i)
    \/ local[r].replies[i].parsed = EmptyDict

\* the tiers as the claim states them: status, score, and the flag it names
ClaimedTier(a, v) ==
    LET domain == a.source_domain IN
    IF domain \in _OFFICIAL
      THEN /\ v.validation_status = "verified"
           /\ v.credibility_score = JInt(92)
           /\ v.needs_cross_reference = FALSE
    ELSE IF domain \in _NEWS
      THEN /\ v.validation_status = "unverified"
           /\ v.credibility_score = JInt(72)
           /\ v.needs_cross_reference = TRUE
    ELSE IF domain \in _COMMUNITY
      THEN /\ v.validation_status = "unverified"
           /\ v.credibility_score = JInt(45)
           /\ v.is_actionable = FALSE
    ELSE /\ v.validation_status = "unverified"
         /\ v.credibility_score = JInt(55)
         /\ v.needs_cross_reference = TRUE

XrefEnds(r) == pc[r] = "cross_reference" /\ pc'[r] # "cross_reference"

StatusOf(a) == Get(a, "validation_status", "<absent>")

ScoreOf(a) == Get(a, "credibility_score", JNull)

ReasoningOf(a) == Get(a, "reasoning", <<>>)

\* C14: the corroboration stage leaves status, score and reasoning of every
\* item that does not need cross reference, or that enters verified or
\* conflicting, as they were; no status becomes unverified and no conflicting
\* item becomes verified.
CorroborationLeavesOutOfScope ==
    [][\A r \in Runs :
         XrefEnds(r) =>
            \A i \in DOMAIN state[r].validated :
                LET a == state[r].validated[i]
                    b == state'[r].validated[i]
                IN  /\ (\/ ~Get(a, "needs_cross_reference", FALSE)
                        \/ StatusOf(a) \in {"verified", "conflicting"})
                         => /\ StatusOf(b) = StatusOf(a)
                            /\ ScoreOf(b) = ScoreOf(a)
                            /\ ReasoningOf(b) = ReasoningOf(a)
                    /\ StatusOf(b) = "unverified" => StatusOf(a) = "unverified"
                    /\ StatusOf(a) = "conflicting" => StatusOf(b) = "conflicting"]_vars

\* C14 witness: the stage upgraded one item and left beside it a conflicting
\* item that asked for cross reference
ConflictingKeptBesideUpgrade ==
    \E r \in Runs :
        /\ pc[r] = "build_digest"
        /\ Len(local[r].lookups) = 2
        /\ \E i, j \in DOMAIN state[r].validated :
             /\ StatusOf(state[r].validated[i]) = "conflicting"
             /\ Get(state[r].validated[i], "needs_cross_reference", FALSE)
             /\ local[r].lookups[j] = "two"
             /\ StatusOf(state[r].validated[j]) = "verified"

\* the confirming count as the claim states it: the distinct domains among
\* the first 15 results, the item's own domain left out
ClaimedCount(kind, own) ==
    LET lookup == Lookup(kind, own)
        n == Min(Len(lookup.entries), 15)
    IN  IF lookup.failed THEN 0
        ELSE Cardinality({StripWww(lookup.entries[i]) : i \in 1..n} \ {own})

BelowThresholdOnlyRecordsCount ==
    [][\A r \in Runs :
         XrefEnds(r) =>
            /\ pc'[r] = "build_digest" =>
                 \A i \in DOMAIN state[r].validated :
                     LET a == state[r].validated[i]
                         n == ClaimedCount(local'[r].lookups[i], a.source_domain)
                     IN  (InScope(a) /\ n < 2) =>
                            state'[r].validated[i] = Put(a, "cross_reference_count", n)
            /\ pc'[r] # "build_digest" =>
                 \E i \in DOMAIN state[r].validated :
                     /\ InScope(state[r].validated[i])
                     /\ ScoreOf(state[r].validated[i]).t # "int"]_vars

\* C17 witness: the lookup of one item failed, it keeps its status with count
\* 0, and the item beside it was upgraded
FailedLookupBesideUpgrade ==
    \E r \in Runs :
        /\ pc[r] = "build_digest"
        /\ Len(local[r].lookups) = 2
        /\ local[r].lookups[1] = "failed"
        /\ state[r].validated[1].cross_reference_count = 0
        /\ StatusOf(state[r].validated[1]) = "unverified"
        /\ local[r].lookups[2] = "two"
        /\ StatusOf(state[r].validated[2]) = "verified"


\* the deduplicate stage of run r ends with this step
DedupEnds(r) == pc[r] = "deduplicate" /\ pc'[r] # "deduplicate"

\* the store has seen the url within the last 7 days
SeenInWindow(url) == url \in DOMAIN articles /\ articles[url] >= now - 7

\* the deduplicator as the claim states it: the items not seen within the
\* window, in arrival order, the first 50 of them
ClaimedFresh(batch) ==
    LET NotSeen(a) == ~SeenInWindow(a.url)
        fresh == SelectSeq(batch, NotSeen)
    IN  SubSeq(fresh, 1, Min(Len(fresh), 50))

\* C18: with the store reachable the deduplicator returns the items whose url
\* the store has not seen within 7 days, in arrival order, the first 50.
DedupReturnsUnseenInOrder ==
    [][\A r \in Runs :
         (DedupEnds(r) /\ local'[r].store_ok) =>
            state'[r].deduplicated = ClaimedFresh(state[r].raw_articles)]_vars

\* C18 witness: of 52 items the first was seen within the window and dropped,
\* the second was seen before it and kept, and the output stops at 50
DedupDroppedSeenAndCut ==
    \E r \in Runs :
        /\ pc[r] = "validate_articles"
        /\ local[r].store_ok
        /\ Len(state[r].raw_articles) = 52
        /\ SeenInWindow(state[r].raw_articles[1].url)
        /\ state[r].raw_articles[2].url \in DOMAIN articles
        /\ Len(state[r].deduplicated) = 50
        /\ state[r].deduplicated[1] = state[r].raw_articles[2]

\* what the stage computes from the batch and the store as they are now
DedupOutput(batch) ==
    LET fresh == new_articles(batch, seen_urls(batch, now - DEDUP_WINDOW))
    IN  SubSeq(fresh, 1, Min(Len(fresh), DEDUP_CAP))

\* C19: the deduplicator leaves the store as it was, so that a second pass on
\* the same batch returns what the first returned; a batch whose urls were all
\* seen within the window comes out empty.
DedupReadsOnly ==
    [][\A r \in Runs :
         DedupEnds(r) =>
            /\ articles' = articles
            /\ local'[r].store_ok =>
                 /\ DedupOutput(state[r].raw_articles)' = state'[r].deduplicated
                 /\ (\A i \in DOMAIN state[r].raw_articles :
                        SeenInWindow(state[r].raw_articles[i].url))
                      => state'[r].deduplicated = <<>>]_vars

\* C19 witness: a batch of items all seen within the window came out empty
DedupAllSeenGivesEmpty ==
    \E r \in Runs :
        /\ pc[r] = "validate_articles"
        /\ local[r].store_ok
        /\ state[r].raw_articles # <<>>
        /\ \A i \in DOMAIN state[r].raw_articles : SeenInWindow(state[r].raw_articles[i].url)
        /\ state[r].deduplicated = <<>>

\* C20: when the lookback query fails the stage returns the batch as it
\* arrived, the first 50 items, and the run goes on to validation.
DedupFailsOpen ==
    [][\A r \in Runs :
         DedupEnds(r) =>
            /\ pc'[r] = "validate_articles"
            /\ ~local'[r].store_ok =>
                 state'[r].deduplicated
                   = SubSeq(state[r].raw_articles, 1, Min(Len(state[r].raw_articles), 50))]_vars

\* C20 witness: the query failed on 52 items, the first of them seen within
\* the window, and the first 50 went through with the seen one at the head
DedupFailedKeptSeen ==
    \E r \in Runs :
        /\ pc[r] = "validate_articles"
        /\ ~local[r].store_ok
        /\ Len(state[r].raw_articles) = 52
        /\ SeenInWindow(state[r].raw_articles[1].url)
        /\ Len(state[r].deduplicated) = 50
        /\ state[r].deduplicated[1] = state[r].raw_articles[1]


\* C21: a failed lookback query leaves an entry in the error list of the run.
DedupFaultIsRecorded ==
    \A r \in Runs :
        (pc[r] = "validate_articles" /\ ~local[r].store_ok) => state[r].errors # <<>>


\* C22: in the validation stage and in the corroboration stage never more
\* than 5 remote calls of the stage are in flight.
AtMostFiveInFlight ==
    \A r \in Runs : InFlightCalls(r) <= 5

\* C22 witness: in the corroboration stage 5 searches are in flight and a
\* sixth article waits at the semaphore
FiveInFlightOneWaiting ==
    \E r \in Runs :
        /\ pc[r] = "xref_gather"
        /\ InFlightCalls(r) = 5
        /\ \E i \in DOMAIN local[r].calls : local[r].calls[i] = "waiting"

\* C23: the list the validation stage returns and the list the corroboration
\* stage returns hold the items of the stage's input list in the input order.
GatherKeepsInputOrder ==
    [][\A r \in Runs :
         /\ (pc[r] = "validate_gather" /\ pc'[r] = "cross_reference") =>
               /\ Len(state'[r].validated) = Len(state[r].deduplicated)
               /\ \A i \in DOMAIN state[r].deduplicated :
                    state'[r].validated[i].url = state[r].deduplicated[i].url
         /\ (pc[r] = "xref_gather" /\ pc'[r] = "build_digest") =>
               /\ Len(state'[r].validated) = Len(state[r].validated)
               /\ \A i \in DOMAIN state[r].validated :
                    state'[r].validated[i].url = state[r].validated[i].url]_vars

\* C23 witness: the searches returned in another order than the articles
\* stand in the list, and the list left the stage in the order of the batch
ReturnedOutOfOrderJoinedInOrder ==
    \E r \in Runs :
        /\ pc[r] = "build_digest"
        /\ local[r].out_of_order
        /\ Len(state[r].validated) = Len(state[r].raw_articles)
        /\ \A i \in DOMAIN state[r].validated :
             state[r].validated[i].url = state[r].raw_articles[i].url


BuiltDigest(r) == pc[r] = "send_approval"

Entries(r) == SelectSeq(state[r].digest, LAMBDA b : b.kind = "entry")

\* the items the filter step keeps, as the claims describe that step
ClaimedFiltered(r) ==
    SelectSeq(state[r].validated,
              LAMBDA a : /\ Get(a, "validation_status", "<absent>") # "conflicting"
                         /\ Has(a, "is_actionable")
                         /\ a.is_actionable = TRUE)

\* the composite priority as the claims describe it
ClaimedPriority(a) ==
    Get(a, "credibility_score", JInt(0)).v
      + (IF Get(a, "category", "<absent>") = "finance"
           THEN Min(10 * Cardinality(Get(a, "kw", {}) \cap _CC_UPI_BOOST_KW), 30)
           ELSE 0)

\* C24: every item of the actionable list is an item of the validated list,
\* is not conflicting and carries is_actionable true.
ActionableIsFilteredValidated ==
    \A r \in Runs :
        BuiltDigest(r) =>
            \A j \in DOMAIN state[r].actionable :
                LET a == state[r].actionable[j]
                IN  /\ \E i \in DOMAIN state[r].validated : state[r].validated[i] = a
                    /\ Get(a, "validation_status", "<absent>") # "conflicting"
                    /\ Has(a, "is_actionable")
                    /\ a.is_actionable = TRUE

\* C24 witness: a list was built from a validated list that holds a
\* conflicting item marked actionable, an item marked not actionable and an
\* item without the field
FilterDroppedEachKind ==
    \E r \in Runs :
        /\ BuiltDigest(r)
        /\ state[r].actionable # <<>>
        /\ \E i, j, k \in DOMAIN state[r].validated :
             LET v == state[r].validated
             IN  /\ v[i].validation_status = "conflicting"
                 /\ Get(v[i], "is_actionable", FALSE)
                 /\ Has(v[j], "is_actionable") /\ ~v[j].is_actionable
                 /\ v[j].validation_status # "conflicting"
                 /\ ~Has(v[k], "is_actionable")
                 /\ v[k].validation_status # "conflicting"

\* C25: the actionable list is the first 15 of the filtered items in
\* descending order of credibility_score + boost, equal priorities in arrival
\* order, the boost 10 per keyword hit up to 30 for finance and 0 otherwise.
ActionableIsTopFifteenByPriority ==
    \A r \in Runs :
        BuiltDigest(r) =>
            LET f == ClaimedFiltered(r)
                act == state[r].actionable
                Rank(i) == 1 + Cardinality({k \in DOMAIN f :
                                \/ ClaimedPriority(f[k]) > ClaimedPriority(f[i])
                                \/ /\ ClaimedPriority(f[k]) = ClaimedPriority(f[i])
                                   /\ k < i})
            IN  /\ Len(act) <= 15
                /\ Len(act) = Min(Len(f), 15)
                /\ \A i \in DOMAIN f : Rank(i) <= 15 => act[Rank(i)] = f[i]

\* C25 witness: more than 15 finance items were filtered, some of equal
\* priority, one with four keyword hits
CappedWithTiesAndFullBoost ==
    \E r \in Runs :
        /\ BuiltDigest(r)
        /\ Len(ClaimedFiltered(r)) > 15
        /\ Len(state[r].actionable) = 15
        /\ \E i, j \in DOMAIN state[r].actionable :
             /\ i < j
             /\ ClaimedPriority(state[r].actionable[i]) = ClaimedPriority(state[r].actionable[j])
        /\ \E i \in DOMAIN state[r].actionable :
             /\ state[r].actionable[i].category = "finance"
             /\ Cardinality(state[r].actionable[i].kw \cap _CC_UPI_BOOST_KW) = 4

\* more than 15 actionable items, their composite scores distinct, every
\* category among them
Crowded(r) ==
    LET f == ClaimedFiltered(r)
    IN  /\ Len(f) > 15
        /\ \A i, j \in DOMAIN f : i # j => ClaimedPriority(f[i]) # ClaimedPriority(f[j])
        /\ \A c \in {"finance", "tech", "govt"} : \E i \in DOMAIN f : f[i].category = c

\* the validated item an entry of the digest shows
Shown(r, e) == CHOOSE a \in {state[r].validated[i] : i \in DOMAIN state[r].validated} :
                   a.url = e.url

CategoryRank(c) == CASE c = "finance" -> 1 [] c = "tech" -> 2 [] OTHER -> 3

\* exactly 15 entries, the 15 highest-scoring items, finance before tech
\* before govt
FifteenHighestGrouped(r) ==
    LET f == ClaimedFiltered(r)
        e == Entries(r)
    IN  /\ Len(e) = 15
        /\ \A i, j \in DOMAIN e : i # j => e[i].url # e[j].url
        /\ \A i \in DOMAIN f :
             (\E j \in DOMAIN e : e[j].url = f[i].url)
               <=> Cardinality({k \in DOMAIN f :
                                   ClaimedPriority(f[k]) > ClaimedPriority(f[i])}) < 15
        /\ \A i, j \in DOMAIN e :
             i < j => CategoryRank(Shown(r, e[i]).category) <= CategoryRank(Shown(r, e[j]).category)

\* C26 as claimed: of more than 15 actionable items with distinct scores over
\* the categories the digest shows exactly the 15 highest, grouped finance,
\* tech, govt, and in descending score order through the document.
DigestDescendingThroughDocument ==
    \A r \in Runs :
        (BuiltDigest(r) /\ Crowded(r)) =>
            /\ FifteenHighestGrouped(r)
            /\ \A i, j \in DOMAIN Entries(r) :
                 i < j => ClaimedPriority(Shown(r, Entries(r)[i]))
                            > ClaimedPriority(Shown(r, Entries(r)[j]))

\* C26 as amended: the digest shows exactly the 15 highest, grouped finance,
\* tech, govt, and in descending score order inside each category block.
DigestDescendingInsideCategory ==
    \A r \in Runs :
        (BuiltDigest(r) /\ Crowded(r)) =>
            /\ FifteenHighestGrouped(r)
            /\ \A i, j \in DOMAIN Entries(r) :
                 (i < j /\ Shown(r, Entries(r)[i]).category = Shown(r, Entries(r)[j]).category)
                    => ClaimedPriority(Shown(r, Entries(r)[i]))
                         > ClaimedPriority(Shown(r, Entries(r)[j]))

\* C26 witness: 20 actionable items with distinct scores gave a digest in
\* which a tech entry stands below a finance entry of lower score
HigherScoreInLaterBlock ==
    \E r \in Runs :
        /\ BuiltDigest(r)
        /\ Crowded(r)
        /\ Len(ClaimedFiltered(r)) = 20
        /\ \E i, j \in DOMAIN Entries(r) :
             /\ i < j
             /\ Shown(r, Entries(r)[i]).category = "finance"
             /\ Shown(r, Entries(r)[j]).category = "tech"
             /\ ClaimedPriority(Shown(r, Entries(r)[i]))
                  < ClaimedPriority(Shown(r, Entries(r)[j]))


\* C27: every item of the capped actionable list is rendered exactly once,
\* the display indices of the entries are 1..n in rendering order through
\* the category blocks, and n is the total the header states.
EveryItemRenderedOnceIndexed ==
    \A r \in Runs :
        (BuiltDigest(r) /\ state[r].digest # <<>>) =>
            LET e == Entries(r)
                act == state[r].actionable
            IN  /\ \A j \in DOMAIN act :
                     Cardinality({i \in DOMAIN e : e[i].url = act[j].url})
                       = Cardinality({k \in DOMAIN act : act[k].url = act[j].url})
                /\ \A i \in DOMAIN e : e[i].idx = i
                /\ state[r].digest[1].kind = "header"
                /\ state[r].digest[1].n = Len(e)


\* the digests the claim lets a sub-command be about: sent or pending, and
\* none of those newer
ClaimedLatest ==
    {d \in DOMAIN digests :
        /\ digests[d].status \in {"sent", "pending"}
        /\ \A e \in DOMAIN digests :
             digests[e].status \in {"sent", "pending"}
               => digests[e].created_at <= digests[d].created_at}

\* C28: a step of 'details N' or 'feedback N text' looks up only the most
\* recent digest that is sent or pending; when there is none, or N is not
\* one of its items, the handler goes on to send a message and nothing stored
\* changes; no step of either changes a digest, a run record or a fetch time.
SubcommandsConsultRecentOnly ==
    [][\A h \in BagToSet(handlers) :
         (h.kind \in {"details", "feedback"} /\ CopiesIn(h, handlers') < CopiesIn(h, handlers)) =>
            /\ digests' = digests
            /\ agent_runs' = agent_runs
            /\ articles' = articles
            /\ user_feedback' # user_feedback => h.pc = "update_one"
            /\ h.pc = "find_latest" =>
                 \A g \in BagToSet(handlers') :
                    CopiesIn(g, handlers') > CopiesIn(g, handlers) =>
                       LET InRange == /\ g.found \in DOMAIN digests
                                      /\ 1 <= h.num
                                      /\ h.num <= Len(digests[g.found].articles)
                       IN  /\ g.found # 0 => g.found \in ClaimedLatest
                           /\ (g.found = 0) = (ClaimedLatest = {})
                           /\ g.pc \in {"send_item", "update_one"} => InRange
                           /\ ~InRange => g.pc \in {"send_no_digest", "send_not_found",
                                                    "send_thanks"}
            /\ h.pc \in {"send_usage", "send_no_digest", "send_not_found", "send_item",
                         "send_thanks"} =>
                 /\ outbox'.kind \in {"details_usage", "no_recent_digest", "item_not_found",
                                      "item_details", "feedback_usage", "feedback_noted"}
                 /\ CopiesIn(h, handlers') = CopiesIn(h, handlers) - 1]_vars

\* C28 witness: 'details 2' was answered with "item not found" while the
\* newest digest is rejected and an older one, of one item, is sent
NotFoundAgainstOlderSentDigest ==
    /\ outbox = Msg("item_not_found", 2)
    /\ user_feedback = EmptyDict
    /\ \E d, e \in DOMAIN digests :
         /\ digests[d].status = "rejected"
         /\ digests[e].status = "sent"
         /\ digests[e].created_at < digests[d].created_at
         /\ Len(digests[e].articles) = 1


\* C29: every chunk the splitter returns is at most 3800 characters long, and
\* a text of at most 3800 characters comes back as one chunk, unchanged.
ChunksWithinLimit ==
    splitter.done =>
        /\ \A i \in DOMAIN splitter.chunks : StrLen(splitter.chunks[i]) <= 3800
        /\ StrLen(splitter.text) <= 3800 => splitter.chunks = <<splitter.text>>

\* C29 witness: a text with a paragraph longer than the limit was split, one
\* of its chunks exactly as long as the limit
LongParagraphWasSplit ==
    /\ splitter.done
    /\ \E i \in DOMAIN splitter.text : splitter.text[i].ch = "x" /\ splitter.text[i].n > 3800
    /\ Len(splitter.chunks) >= 3
    /\ \E i \in DOMAIN splitter.chunks : StrLen(splitter.chunks[i]) = 3800

\* C30: the chunks joined with blank lines are the text that was split.
ChunksJoinToText ==
    splitter.done => JoinParagraphs(splitter.chunks) = splitter.text


\* C31: an update whose chat id is not the configured chat id, or that has
\* no chat at all, calls no handler, and so no step made for it changes a
\* stored digest, run or article or starts a run.
ForeignUpdateIsIgnored ==
    [][/\ \A chat_id \in ChatIds : \A text \in feed.texts \cup {""} :
            ((chat_id # TELEGRAM_CHAT_ID \/ chat_id = "")
               /\ telegram_webhook_update(chat_id, text)) => (db' = db /\ pc' = pc)
       /\ \A h \in BagToSet(handlers) :
            (h.chat = "" /\ CopiesIn(h, handlers') < CopiesIn(h, handlers))
               => (db' = db /\ pc' = pc)]_vars


\* C32: a trigger request with no Authorization header or with a token other
\* than the secret is answered 401 and adds no run record and no task; a
\* request with the secret's token is answered 200 and adds one run record,
\* with status running, and its task.
TriggerRequiresToken ==
    [][\A authorization \in Authorizations :
         trigger_agent_request(authorization) =>
            IF authorization = "<absent>" \/ authorization # "Bearer " \o AGENT_SECRET_KEY
              THEN /\ trigger_status(authorization) = 401
                   /\ agent_runs' = agent_runs
                   /\ pc' = pc
              ELSE /\ trigger_status(authorization) = 200
                   /\ Len(agent_runs') = Len(agent_runs) + 1
                   /\ SubSeq(agent_runs', 1, Len(agent_runs)) = agent_runs
                   /\ agent_runs'[Len(agent_runs')].status = "running"
                   /\ pc' = Append(pc, "fetch_sources")]_vars


\* C33: a run's record exists with status running when its task starts; when
\* its task has ended (after which no step touches the record) the record is
\* completed or failed, whatever stage or store write failed; and a record
\* that is completed or failed is never running again.
RunRecordReachesFinalStatus ==
    [][/\ \A r \in DOMAIN pc' :
            /\ r \in DOMAIN agent_runs'
            /\ r \notin DOMAIN pc =>
                  (pc'[r] = "fetch_sources" /\ agent_runs'[r].status = "running")
            /\ pc'[r] = "END" => agent_runs'[r].status \in {"completed", "failed"}
       /\ \A r \in DOMAIN agent_runs :
            agent_runs[r].status \in {"completed", "failed"} =>
                agent_runs'[r].status # "running"]_vars


\* the urls of the entries that the stored body of digest d shows with
\* display index n
DisplayedAs(d, n) ==
    {digests[d].digest_text[i].url : i \in {j \in DOMAIN digests[d].digest_text :
                                              /\ digests[d].digest_text[j].kind = "entry"
                                              /\ digests[d].digest_text[j].idx = n}}

\* C34: the item that details N sends, and the item that feedback N is
\* recorded against, is the one item that the stored body of the digest shows
\* with display index N.
ItemCommandsFollowDisplayIndex ==
    [][\A h \in InFlight :
          /\ (details_send(h) /\ h.pc = "send_item") =>
                DisplayedAs(h.found, h.num) = {Get(art(h), "url", "")}
          /\ feedback_update(h) =>
                DisplayedAs(h.found, h.num) = {Get(art(h), "url", "")}]_vars


\* C35: when a YES handler has sent the body of a digest, no YES handler is
\* left in flight that has found the same digest and will send its body
\* again.
BodyIsFlushedOnce ==
    [][\A h \in InFlight :
          approval_send(h) =>
              \A g \in BagToSet(handlers') :
                  ~(/\ g.kind = "approval"
                    /\ g.pc \in {"update_one", "send_chunks"}
                    /\ g.found = h.found)]_vars


\* C36: when a YES handler has gone through the chunks of a digest's body and
\* the digest is stored with status sent, every chunk was delivered.
SentMeansDelivered ==
    \A d \in DOMAIN digests :
        (outbox.kind = "digest_body" /\ outbox.ref = d /\ digests[d].status = "sent")
            => outbox.ok


\* C37: when the lookup of a YES runs after a run has sent its preview, and
\* no digest of that run has been sent or rejected since, a digest of that
\* run is stored with status pending, so the lookup finds a pending digest.
PreviewedDigestIsPending ==
    [][\A h \in InFlight :
          approval_find(h) =>
              \A r \in Runs :
                  (/\ ApprovalDone(r)
                   /\ state[r].approval_status = "pending"
                   /\ \A d \in DigestsOf(r) : Status(d) = "pending")
                      => (DigestsOf(r) # {} /\ Pending # {})]_vars


\* the urls of a list of items
UrlsOf(items) == {Get(items[i], "url", "") : i \in DOMAIN items}

\* the urls that a run other than r validated and saved on completing, its
\* save no more than DEDUP_WINDOW days ago
SavedEarlier(r) ==
    UNION {UrlsOf(state[e].validated) :
              e \in {x \in Runs \ {r} : /\ agent_runs[x].status = "completed"
                                         /\ local[x].now >= now - DEDUP_WINDOW}}

\* what C38 says of the deduplicate stage of run r, given that it has run
RerunOutcome(r) ==
    /\ (state[r].raw_articles # <<>> /\ UrlsOf(state[r].raw_articles) \subseteq SavedEarlier(r))
          => state'[r].deduplicated = <<>>
    /\ UrlsOf(state'[r].deduplicated) \cap SavedEarlier(r) = {}
    /\ \A e \in Runs \ {r} : \A u \in UrlsOf(state[e].raw_articles) :
          (/\ agent_runs[e].status = "completed"
           /\ u \in UrlsOf(state[r].raw_articles)
           /\ \A x \in Runs : u \notin UrlsOf(state[x].validated))
             => (/\ u \notin DOMAIN articles
                 /\ u \in UrlsOf(state'[r].deduplicated))

HeaderCountsDescribeDigest ==
    \A r \in Runs :
        (BuiltDigest(r) /\ state[r].digest # <<>>) =>
            LET header == state[r].digest[1]
            IN  /\ header.kind = "header"
                /\ header.n = Len(state[r].actionable)
                /\ header.verified = CountStatus(state[r].actionable, "verified")
                /\ header.verified + header.unverified = header.n


\* the nodes of the graph in the order of its edges
STAGES ==
    <<"fetch_sources", "deduplicate", "validate_articles", "cross_reference",
      "build_digest", "send_approval", "save_results">>

\* the place of a task in the graph: the three steps of the save stage are
\* one node
StageOf(p) ==
    IF p \in {"save_digest", "save_run"} THEN 7
    ELSE IF \E i \in DOMAIN STAGES : STAGES[i] = p
      THEN CHOOSE i \in DOMAIN STAGES : STAGES[i] = p
      ELSE 0

\* C40: a run starts at fetch; each step of it stays in its stage's node or
\* goes to the next node of the order fetch, deduplicate, validate,
\* cross-reference, build digest, send approval request, save results, so no
\* stage runs twice or out of order; the run ends from the save stage, or
\* from the failure path that a raised exception leads to; and a digest
\* record is added only by the save stage of a run, with status pending and
\* that run's id.
StagesRunOnceInOrder ==
    [][/\ \A r \in DOMAIN pc' :
            IF r \notin DOMAIN pc THEN pc'[r] = STAGES[1]
            ELSE pc'[r] # pc[r] =>
                   \/ /\ StageOf(pc[r]) \in 1..6
                      /\ pc'[r] = STAGES[StageOf(pc[r]) + 1]
                   \/ /\ pc[r] = "save_results"
                      /\ pc'[r] \in {"save_digest", "save_run", "END"}
                   \/ pc[r] = "save_digest" /\ pc'[r] \in {"save_run", "END"}
                   \/ pc[r] = "save_run" /\ pc'[r] = "END"
                   \/ StageOf(pc[r]) \in 1..6 /\ pc'[r] = "mark_failed"
                   \/ pc[r] = "mark_failed" /\ pc'[r] \in {"notify_failed", "END"}
                   \/ pc[r] = "notify_failed" /\ pc'[r] = "END"
       /\ Len(digests') >= Len(digests)
       /\ Len(digests') > Len(digests) =>
            \E r \in Runs :
                /\ save_digest(r)
                /\ digests' = Append(digests, digests'[Len(digests')])
                /\ digests'[Len(digests')].status = "pending"
                /\ digests'[Len(digests')].run_id = r]_vars

\* C40 witness: a run has gone through every stage and ended, completed,
\* its digest stored by the save stage and still pending.
RunWentThroughEveryStage ==
    \E r \in Runs :
        /\ pc[r] = "END"
        /\ agent_runs[r].status = "completed"
        /\ state[r].raw_articles # <<>>
        /\ state[r].validated # <<>>
        /\ state[r].actionable # <<>>
        /\ state[r].approval_status = "pending"
        /\ \E d \in DigestsOf(r) : Status(d) = "pending"

====
